---- MODULE Spec2Model ----
(***************************************************************************)
(* Platypus: the reactive rerun engine.                                    *)
(*                                                                         *)
(*   DeltaGenerator   platypus-core/src/state.rs                           *)
(*   WidgetValue      platypus-core/src/widget.rs                          *)
(*   St, Container    platypus-runtime/src/context.rs                      *)
(*   ScriptExecutor   platypus-server/src/executor.rs                      *)
(*   handle_socket    platypus-server/src/ws.rs                            *)
(*   SessionStore     platypus-runtime/src/session_store.rs                *)
(*   DataCache        platypus-runtime/src/cache.rs                        *)
(*   Navigation       platypus-runtime/src/navigation.rs                   *)
(*                                                                         *)
(* The specifications below share the definitions of the module:           *)
(*   SpecGen    one DeltaGenerator driven through its own API and through  *)
(*              St / Container views that share it;                        *)
(*   SpecSt     one run context on which every builder method of St is     *)
(*              called, at top level and through container views;          *)
(*   SpecExec   one connection's ScriptExecutor handling the messages of   *)
(*              handle_socket;                                             *)
(*   SpecWire   the same connection with the transcript of what it         *)
(*              received, ran and sent;                                    *)
(*   SpecKey    a run context seeded with one stored value, and the input  *)
(*              widgets called on it;                                      *)
(*   SpecConc   two callers that share one ScriptExecutor;                 *)
(*   SpecSess   the SessionStore and the connections of one server;        *)
(*   SpecServe  SpecSess with a clock that keeps advancing;                *)
(*   SpecElem   one element object and the methods that mutate it;         *)
(*   SpecDelta  a run context on which update_element, remove_element      *)
(*              and clear_container are called;                            *)
(*   SpecAdd    two threads inside add_element on one DeltaGenerator;      *)
(*   SpecStore  the SessionStore driven through its own methods;           *)
(*   SpecCache  one DataCache and the clock;                               *)
(*   SpecNav    one Navigation.                                            *)
(*                                                                         *)
(* Encodings: Option<T> is a sequence of length 0 or 1; text values are    *)
(* sequences of one-character strings; labels and widget keys are strings; *)
(* f64 values are integers (the inputs used are integral).                 *)
(***************************************************************************)
EXTENDS Integers, Sequences, FiniteSets, TLC

VARIABLES
    \* the DeltaGenerator of the current run context (shared by its clones)
    elements, widgets, deltas, next_element_id,
    \* ids of the Container handles the script holds
    containers,
    \* history of the run context (observations, not program state)
    issued, declared, recorded, takes, cleared, last_take, last_call, ncalls,
    call_log,
    \* ScriptExecutor and the connection that owns it
    app, widget_state, pc, last, prev,
    \* the latest change handled per key (observation)
    written,
    \* callers that share one ScriptExecutor
    thread,
    \* the SessionStore, the connections of the server, and the clock
    sessions, conn, now,
    \* the transcript of the connection, when one is kept (observation)
    wire,
    \* an element object a host holds, and the last operation made on it
    elem,
    \* a DataCache, and what was set on it and the last call made (observation)
    cache, cache_log,
    \* a Navigation, and the calls made on it (observation)
    nav, nav_log,
    \* threads inside add_element on handles that share the DeltaGenerator
    adder,
    \* the Session copy a caller of the SessionStore holds, and the calls
    \* made on the store (observation)
    held, store_log

genVars == <<elements, widgets, deltas, next_element_id>>
ctxVars == <<elements, widgets, deltas, next_element_id, containers,
             issued, declared, recorded, takes, cleared, last_take, last_call,
             ncalls, call_log>>
sessVars == <<sessions, conn, now>>
libVars == <<cache, cache_log, nav, nav_log, adder, held, store_log>>
execVars == <<app, widget_state, pc, last, prev, written, thread,
              sessions, conn, now, wire, elem, libVars>>
vars == <<elements, widgets, deltas, next_element_id, containers,
          issued, declared, recorded, takes, cleared, last_take, last_call,
          ncalls, call_log, app, widget_state, pc, last, prev, written,
          thread, sessions, conn, now, wire, elem, libVars>>

----------------------------------------------------------------------------
\* Bounds of the model.

\* largest element id a run context allocates in SpecGen
MaxId == 3
\* number of calls (builder methods and set_widget) made on a run context
\* in SpecSt
MaxCalls == 2
\* longest raw text value a client sends
MaxLen == 1
\* latest clock reading (seconds) in SpecSess
MaxTime == 2
\* number of messages a connection receives while its transcript is kept
MaxMsgs == 2

----------------------------------------------------------------------------
\* Option<T>

None == << >>
Some(x) == <<x>>
IsSome(o) == Len(o) = 1
Unwrap(o) == o[1]
UnwrapOr(o, d) == IF IsSome(o) THEN o[1] ELSE d

\* a finite map as a function; insert overwrites
EmptyMap == [k \in {} |-> None]
MapInsert(m, k, v) == [x \in DOMAIN m \cup {k} |-> IF x = k THEN v ELSE m[x]]
MapGet(m, k) == IF k \in DOMAIN m THEN Some(m[k]) ELSE None

----------------------------------------------------------------------------
\* WidgetValue and its accessors

WString(s) == [t |-> "String", s |-> s]
WNumber(n) == [t |-> "Number", n |-> n]
WBool(b) == [t |-> "Bool", b |-> b]
WStringArray(a) == [t |-> "StringArray", a |-> a]

as_string(v) == IF v.t = "String" THEN Some(v.s) ELSE None
as_number(v) == IF v.t = "Number" THEN Some(v.n) ELSE None
as_bool(v) == IF v.t = "Bool" THEN Some(v.b) ELSE None
as_string_array(v) == IF v.t = "StringArray" THEN Some(v.a) ELSE None

----------------------------------------------------------------------------
\* Delta and DeltaGenerator.  A generator value is the record of the four
\* shared cells; every clone reads and writes the same cells.

AddElementDelta(id, et, parent_id) ==
    [op |-> "AddElement", id |-> id, element |-> et, parent_id |-> parent_id]

DeltaGeneratorNew ==
    [elements |-> EmptyMap, widgets |-> EmptyMap, deltas |-> << >>,
     next_element_id |-> 1]

\* mutant of next_element_id: the counter is returned but not bumped
NextElementIdNoBump(g) ==
    [gen |-> g, id |-> g.next_element_id]

\* next_element_id(): returns the counter and bumps it, under the write lock
NextElementId(g) ==
    [gen |-> [g EXCEPT !.next_element_id = g.next_element_id + 1],
     id |-> g.next_element_id]

\* mutant of add_element: the delta is put at the head of the log
AddElementAtHead(g, et, parent_id) ==
    LET a == NextElementId(g)
        id == a.id
    IN  [gen |-> [a.gen EXCEPT
                    !.elements = MapInsert(a.gen.elements, id, et),
                    !.deltas = <<AddElementDelta(id, et, parent_id)>>
                               \o a.gen.deltas],
         id |-> id]

\* add_element(element_type, parent_id)
AddElement(g, et, parent_id) ==
    LET a == NextElementId(g)
        id == a.id
    IN  [gen |-> [a.gen EXCEPT
                    !.elements = MapInsert(a.gen.elements, id, et),
                    !.deltas = Append(a.gen.deltas,
                                      AddElementDelta(id, et, parent_id))],
         id |-> id]

\* mutant of take_deltas: the log is cloned, not taken
TakeDeltasKeepsLog(g) ==
    [gen |-> g, out |-> g.deltas]

\* take_deltas(): std::mem::take of the log
TakeDeltas(g) ==
    [gen |-> [g EXCEPT !.deltas = << >>], out |-> g.deltas]

\* set_widget(key, value) / get_widget(key)
SetWidget(g, key, value) ==
    [g EXCEPT !.widgets = MapInsert(g.widgets, key, value)]
GetWidget(g, key) == MapGet(g.widgets, key)

\* mutant of clear: the id counter restarts as well
ClearResetsCounter(g) ==
    [g EXCEPT !.elements = EmptyMap, !.widgets = EmptyMap, !.deltas = << >>,
              !.next_element_id = 1]

\* clear(): elements, widgets and the log; the counter is left alone
Clear(g) ==
    [g EXCEPT !.elements = EmptyMap, !.widgets = EmptyMap, !.deltas = << >>]

Gen ==
    [elements |-> elements, widgets |-> widgets, deltas |-> deltas,
     next_element_id |-> next_element_id]

SetGen(g) ==
    /\ elements' = g.elements
    /\ widgets' = g.widgets
    /\ deltas' = g.deltas
    /\ next_element_id' = g.next_element_id

----------------------------------------------------------------------------
\* ElementType variants recorded by the builder methods

Text(value) == [type |-> "Text", value |-> value]
Markdown(value) == [type |-> "Markdown", value |-> value]
Code(value, language) ==
    [type |-> "Code", value |-> value, language |-> language]
Heading(value, level) == [type |-> "Heading", value |-> value, level |-> level]
Button(label, key) == [type |-> "Button", label |-> label, key |-> key]
TextInput(label, value, key) ==
    [type |-> "TextInput", label |-> label, value |-> value, key |-> key]
TextArea(label, value, key) ==
    [type |-> "TextArea", label |-> label, value |-> value, key |-> key]
NumberInput(label, value, key) ==
    [type |-> "NumberInput", label |-> label, value |-> value, key |-> key]
Slider(label, value, min, max, key) ==
    [type |-> "Slider", label |-> label, value |-> value, min |-> min,
     max |-> max, key |-> key]
Checkbox(label, value, key) ==
    [type |-> "Checkbox", label |-> label, value |-> value, key |-> key]
Radio(label, options, value, key) ==
    [type |-> "Radio", label |-> label, options |-> options, value |-> value,
     key |-> key]
Selectbox(label, options, value, key) ==
    [type |-> "Selectbox", label |-> label, options |-> options,
     value |-> value, key |-> key]
Multiselect(label, options, values, key) ==
    [type |-> "Multiselect", label |-> label, options |-> options,
     values |-> values, key |-> key]
DateInput(label, value, key) ==
    [type |-> "DateInput", label |-> label, value |-> value, key |-> key]
TimeInput(label, value, key) ==
    [type |-> "TimeInput", label |-> label, value |-> value, key |-> key]
ColorPicker(label, value, key) ==
    [type |-> "ColorPicker", label |-> label, value |-> value, key |-> key]
FileUploader(label, key) ==
    [type |-> "FileUploader", label |-> label, key |-> key]
CameraInput(label, key) ==
    [type |-> "CameraInput", label |-> label, key |-> key]
Json(value) == [type |-> "Json", value |-> value]
Dataframe(data) == [type |-> "Dataframe", data |-> data]
Table(headers, rows) == [type |-> "Table", headers |-> headers, rows |-> rows]
ContainerEl == [type |-> "Container", children |-> << >>]
Column(width) == [type |-> "Column", children |-> << >>, width |-> width]
Expander(label) ==
    [type |-> "Expander", label |-> label, expanded |-> FALSE,
     children |-> << >>]
Image(src, caption, width) ==
    [type |-> "Image", src |-> src, caption |-> caption, width |-> width]
Success(message) == [type |-> "Success", message |-> message]
Error(message) == [type |-> "Error", message |-> message]
Warning(message) == [type |-> "Warning", message |-> message]
Info(message) == [type |-> "Info", message |-> message]
Progress(value) == [type |-> "Progress", value |-> value]
Tabs(tabs) == [type |-> "Tabs", tabs |-> tabs]
Sidebar == [type |-> "Sidebar", children |-> << >>]
Metric(label, value, delta) ==
    [type |-> "Metric", label |-> label, value |-> value, delta |-> delta]
Empty == [type |-> "Empty"]
Divider == [type |-> "Divider"]

----------------------------------------------------------------------------
\* St: the builder methods.  A view of the run context is its
\* current_container cc (None on the context the script is given, Some(id)
\* on Container::st()).  Every method returns the generator after the call
\* and the value the script gets back.

\* vec.get(index).cloned().unwrap_or_default() on a list of texts
GetOrDefault(options, index) ==
    IF index < Len(options) THEN options[index + 1] ELSE << >>

\* get_widget(key).and_then(accessor)
Lookup(g, key_str, accessor(_)) ==
    LET w == GetWidget(g, key_str)
    IN  IF IsSome(w) THEN accessor(Unwrap(w)) ELSE None

\* a display call: record the element, return its id
Display(g, cc, et) ==
    LET a == AddElement(g, et, cc)
    IN  [gen |-> a.gen, ret |-> a.id]

StWrite(g, cc, text) == Display(g, cc, Text(text))
StMarkdown(g, cc, text) == Display(g, cc, Markdown(text))
StCode(g, cc, code, language) == Display(g, cc, Code(code, language))
StHeading(g, cc, text, level) == Display(g, cc, Heading(text, level))
StTitle(g, cc, text) == StHeading(g, cc, text, 1)
StHeader(g, cc, text) == StHeading(g, cc, text, 2)
StSubheader(g, cc, text) == StHeading(g, cc, text, 3)
StJson(g, cc, value) == Display(g, cc, Json(value))
StImage(g, cc, src, caption, width) ==
    Display(g, cc, Image(src, caption, width))
StSuccess(g, cc, message) == Display(g, cc, Success(message))
StError(g, cc, message) == Display(g, cc, Error(message))
StWarning(g, cc, message) == Display(g, cc, Warning(message))
StInfo(g, cc, message) == Display(g, cc, Info(message))
StProgress(g, cc, value) == Display(g, cc, Progress(value))
StDivider(g, cc) == Display(g, cc, Divider)
StEmpty(g, cc) == Display(g, cc, Empty)
StMetric(g, cc, label, value, delta) ==
    Display(g, cc, Metric(label, value, delta))
StTable(g, cc, headers, rows) == Display(g, cc, Table(headers, rows))
StDataframe(g, cc, data) == Display(g, cc, Dataframe(data))

StButton(g, cc, label, key) ==
    LET a == AddElement(g, Button(label, key), cc)
        w == IF IsSome(key) THEN GetWidget(a.gen, Unwrap(key)) ELSE None
    IN  [gen |-> a.gen,
         ret |-> IF IsSome(w) THEN UnwrapOr(as_bool(Unwrap(w)), FALSE)
                 ELSE FALSE]

StTextInput(g, cc, label, value, key) ==
    LET key_str == UnwrapOr(key, "text_input_" \o label)
        a == AddElement(g, TextInput(label, value, key), cc)
    IN  [gen |-> a.gen,
         ret |-> UnwrapOr(Lookup(a.gen, key_str, as_string), value)]

\* mutant of text_area: the default key is built with text_input's prefix
StTextAreaSharedKey(g, cc, label, value, key) ==
    LET key_str == UnwrapOr(key, "text_input_" \o label)
        a == AddElement(g, TextArea(label, value, key), cc)
    IN  [gen |-> a.gen,
         ret |-> UnwrapOr(Lookup(a.gen, key_str, as_string), value)]

StTextArea(g, cc, label, value, key) ==
    LET key_str == UnwrapOr(key, "text_area_" \o label)
        a == AddElement(g, TextArea(label, value, key), cc)
    IN  [gen |-> a.gen,
         ret |-> UnwrapOr(Lookup(a.gen, key_str, as_string), value)]

StNumberInput(g, cc, label, value, key) ==
    LET key_str == UnwrapOr(key, "number_input_" \o label)
        a == AddElement(g, NumberInput(label, value, key), cc)
    IN  [gen |-> a.gen,
         ret |-> UnwrapOr(Lookup(a.gen, key_str, as_number), value)]

\* mutant of slider: the value is looked up under the derived key only
StSliderDerivedKey(g, cc, label, min, max, value, key) ==
    LET key_str == "slider_" \o label
        a == AddElement(g, Slider(label, value, min, max, key), cc)
    IN  [gen |-> a.gen,
         ret |-> UnwrapOr(Lookup(a.gen, key_str, as_number), value)]

StSlider(g, cc, label, min, max, value, key) ==
    LET key_str == UnwrapOr(key, "slider_" \o label)
        a == AddElement(g, Slider(label, value, min, max, key), cc)
    IN  [gen |-> a.gen,
         ret |-> UnwrapOr(Lookup(a.gen, key_str, as_number), value)]

StCheckbox(g, cc, label, value, key) ==
    LET key_str == UnwrapOr(key, "checkbox_" \o label)
        a == AddElement(g, Checkbox(label, value, key), cc)
    IN  [gen |-> a.gen,
         ret |-> UnwrapOr(Lookup(a.gen, key_str, as_bool), value)]

StSelectbox(g, cc, label, options, index, key) ==
    LET default == GetOrDefault(options, index)
        key_str == UnwrapOr(key, "selectbox_" \o label)
        a == AddElement(g, Selectbox(label, options, Some(default), key), cc)
    IN  [gen |-> a.gen,
         ret |-> UnwrapOr(Lookup(a.gen, key_str, as_string), default)]

StMultiselect(g, cc, label, options, default, key) ==
    LET key_str == UnwrapOr(key, "multiselect_" \o label)
        a == AddElement(g, Multiselect(label, options, default, key), cc)
    IN  [gen |-> a.gen,
         ret |-> UnwrapOr(Lookup(a.gen, key_str, as_string_array), default)]

StDateInput(g, cc, label, value, key) ==
    LET key_str == UnwrapOr(key, "date_input_" \o label)
        a == AddElement(g, DateInput(label, value, key), cc)
    IN  [gen |-> a.gen,
         ret |-> UnwrapOr(Lookup(a.gen, key_str, as_string), value)]

StTimeInput(g, cc, label, value, key) ==
    LET key_str == UnwrapOr(key, "time_input_" \o label)
        a == AddElement(g, TimeInput(label, value, key), cc)
    IN  [gen |-> a.gen,
         ret |-> UnwrapOr(Lookup(a.gen, key_str, as_string), value)]

StColorPicker(g, cc, label, value, key) ==
    LET key_str == UnwrapOr(key, "color_picker_" \o label)
        a == AddElement(g, ColorPicker(label, value, key), cc)
    IN  [gen |-> a.gen,
         ret |-> UnwrapOr(Lookup(a.gen, key_str, as_string), value)]

StFileUploader(g, cc, label, key) ==
    LET key_str == UnwrapOr(key, "file_uploader_" \o label)
        a == AddElement(g, FileUploader(label, key), cc)
    IN  [gen |-> a.gen, ret |-> Lookup(a.gen, key_str, as_string)]

StRadio(g, cc, label, options, index, key) ==
    LET key_str == UnwrapOr(key, "radio_" \o label)
        default_value == GetOrDefault(options, index)
        a == AddElement(g, Radio(label, options, Some(default_value), key), cc)
    IN  [gen |-> a.gen,
         ret |-> UnwrapOr(Lookup(a.gen, key_str, as_string), default_value)]

StCameraInput(g, cc, label, key) ==
    LET key_str == UnwrapOr(key, "camera_" \o label)
        a == AddElement(g, CameraInput(label, key), cc)
    IN  [gen |-> a.gen, ret |-> Lookup(a.gen, key_str, as_string)]

\* container(): the element under the current container, and its handle
StContainer(g, cc) ==
    LET a == AddElement(g, ContainerEl, cc)
    IN  [gen |-> a.gen, ret |-> <<a.id>>]

\* columns(count): count Column elements of width 1/count, one handle each
RECURSIVE ColumnsFrom(_, _, _, _)
ColumnsFrom(g, cc, count, left) ==
    IF left = 0 THEN [gen |-> g, ret |-> << >>]
    ELSE LET a == AddElement(g, Column(Some(<<1, count>>)), cc)
             rest == ColumnsFrom(a.gen, cc, count, left - 1)
         IN  [gen |-> rest.gen, ret |-> <<a.id>> \o rest.ret]

StColumns(g, cc, count) == ColumnsFrom(g, cc, count, count)

\* tabs(labels): a Tabs element under the current container, then one
\* Container per label under the Tabs element, one handle each
RECURSIVE TabPanes(_, _, _)
TabPanes(g, tabs_id, left) ==
    IF left = 0 THEN [gen |-> g, ret |-> << >>]
    ELSE LET a == AddElement(g, ContainerEl, Some(tabs_id))
             rest == TabPanes(a.gen, tabs_id, left - 1)
         IN  [gen |-> rest.gen, ret |-> <<a.id>> \o rest.ret]

StTabs(g, cc, labels) ==
    LET tabs_data == [i \in 1..Len(labels) |-> <<labels[i], << >> >>]
        a == AddElement(g, Tabs(tabs_data), cc)
    IN  TabPanes(a.gen, a.id, Len(labels))

\* mutant of expander: the element is recorded with no parent
StExpanderNoParent(g, cc, label) ==
    LET a == AddElement(g, Expander(label), None)
    IN  [gen |-> a.gen, ret |-> <<a.id>>]

StExpander(g, cc, label) ==
    LET a == AddElement(g, Expander(label), cc)
    IN  [gen |-> a.gen, ret |-> <<a.id>>]

\* sidebar(): the Sidebar element is recorded with no parent
StSidebar(g, cc) ==
    LET a == AddElement(g, Sidebar, None)
    IN  [gen |-> a.gen, ret |-> <<a.id>>]

----------------------------------------------------------------------------
\* The run context as a state machine: the script calls builder methods on
\* the views it holds, in any order.

\* the views the script can call through: the context it was given, and
\* Container::st() of every handle it holds
Views == {None} \cup {Some(c) : c \in containers}

\* the deltas a call appended to the log
NewDeltas(g0, g1) == SubSeq(g1.deltas, Len(g0.deltas) + 1, Len(g1.deltas))

SeqToSet(s) == {s[i] : i \in 1..Len(s)}

\* One builder call through view cc with result r.  The history keeps, for
\* every element the call recorded, the view and the method that declared it
\* and the number of the call; handles are the ids of the Container handles
\* the call returned.
Call(method, cc, args, r, handles) ==
    LET new == NewDeltas(Gen, r.gen)
    IN  /\ SetGen(r.gen)
        /\ containers' = containers \cup handles
        /\ issued' = issued \o [i \in 1..Len(new) |-> new[i].id]
        /\ declared' = declared \o
               [i \in 1..Len(new) |->
                    [id |-> new[i].id, via |-> cc, method |-> method,
                     call |-> ncalls + 1]]
        /\ recorded' = recorded \o new
        /\ last_call' = [method |-> method, via |-> cc, args |-> args,
                         ret |-> r.ret]
        /\ ncalls' = ncalls + 1
        /\ last_take' = None
        /\ call_log' = Append(call_log, last_call')
        /\ UNCHANGED <<takes, cleared>>
        /\ UNCHANGED execVars

\* inputs of the builder calls
Texts == {<<"a">>}
Labels == {"L"}
KeyArgs == {None, Some("k")}
Options == <<(<<"x">>), (<<"y">>)>>
\* option lists a selection widget is declared with
OptionLists == {<< >>, Options}
Indices == {0, 1}
ColumnCounts == {1, 2}
TabLabels == {<<"t">>}
\* heading levels (u32): the ends of 1..6 and their neighbours
Levels == {0, 1, 6, 7}

NoArgs == [key |-> None]

Write(cc) ==
    \E text \in Texts :
        Call("write", cc, NoArgs, StWrite(Gen, cc, text), {})

MarkdownCall(cc) ==
    \E text \in Texts :
        Call("markdown", cc, NoArgs, StMarkdown(Gen, cc, text), {})

CodeCall(cc) ==
    \E text \in Texts :
        Call("code", cc, NoArgs, StCode(Gen, cc, text, None), {})

HeadingCall(cc) ==
    \E text \in Texts, level \in Levels :
        Call("heading", cc, NoArgs, StHeading(Gen, cc, text, level), {})

TitleCall(cc) ==
    \E text \in Texts :
        Call("title", cc, NoArgs, StTitle(Gen, cc, text), {})

HeaderCall(cc) ==
    \E text \in Texts :
        Call("header", cc, NoArgs, StHeader(Gen, cc, text), {})

SubheaderCall(cc) ==
    \E text \in Texts :
        Call("subheader", cc, NoArgs, StSubheader(Gen, cc, text), {})

JsonCall(cc) ==
    \E text \in Texts :
        Call("json", cc, NoArgs, StJson(Gen, cc, text), {})

ImageCall(cc) ==
    \E text \in Texts :
        Call("image", cc, NoArgs, StImage(Gen, cc, text, None, None), {})

SuccessCall(cc) ==
    \E text \in Texts :
        Call("success", cc, NoArgs, StSuccess(Gen, cc, text), {})

ErrorCall(cc) ==
    \E text \in Texts :
        Call("error", cc, NoArgs, StError(Gen, cc, text), {})

WarningCall(cc) ==
    \E text \in Texts :
        Call("warning", cc, NoArgs, StWarning(Gen, cc, text), {})

InfoCall(cc) ==
    \E text \in Texts :
        Call("info", cc, NoArgs, StInfo(Gen, cc, text), {})

ProgressCall(cc) ==
    Call("progress", cc, NoArgs, StProgress(Gen, cc, 1), {})

DividerCall(cc) ==
    Call("divider", cc, NoArgs, StDivider(Gen, cc), {})

EmptyCall(cc) ==
    Call("empty", cc, NoArgs, StEmpty(Gen, cc), {})

MetricCall(cc) ==
    \E label \in Labels, text \in Texts :
        Call("metric", cc, NoArgs, StMetric(Gen, cc, label, text, None), {})

TableCall(cc) ==
    \E text \in Texts :
        Call("table", cc, NoArgs, StTable(Gen, cc, <<text>>, <<(<<text>>)>>), {})

DataframeCall(cc) ==
    \E text \in Texts :
        Call("dataframe", cc, NoArgs, StDataframe(Gen, cc, text), {})

ButtonCall(cc) ==
    \E label \in Labels, key \in KeyArgs :
        Call("button", cc, [key |-> key], StButton(Gen, cc, label, key), {})

TextInputCall(cc) ==
    \E label \in Labels, value \in Texts, key \in KeyArgs :
        Call("text_input", cc, [key |-> key, default |-> value],
             StTextInput(Gen, cc, label, value, key), {})

TextAreaCall(cc) ==
    \E label \in Labels, value \in Texts, key \in KeyArgs :
        Call("text_area", cc, [key |-> key, default |-> value],
             StTextArea(Gen, cc, label, value, key), {})

NumberInputCall(cc) ==
    \E label \in Labels, key \in KeyArgs :
        Call("number_input", cc, [key |-> key, default |-> 25],
             StNumberInput(Gen, cc, label, 25, key), {})

SliderCall(cc) ==
    \E label \in Labels, key \in KeyArgs :
        Call("slider", cc, [key |-> key, default |-> 50],
             StSlider(Gen, cc, label, 0, 100, 50, key), {})

CheckboxCall(cc) ==
    \E label \in Labels, key \in KeyArgs :
        Call("checkbox", cc, [key |-> key, default |-> FALSE],
             StCheckbox(Gen, cc, label, FALSE, key), {})

SelectboxCall(cc) ==
    \E label \in Labels, options \in OptionLists, index \in Indices,
       key \in KeyArgs :
        Call("selectbox", cc,
             [key |-> key, default |-> GetOrDefault(options, index)],
             StSelectbox(Gen, cc, label, options, index, key), {})

MultiselectCall(cc) ==
    \E label \in Labels, key \in KeyArgs :
        Call("multiselect", cc, [key |-> key, default |-> <<Options[1]>>],
             StMultiselect(Gen, cc, label, Options, <<Options[1]>>, key), {})

DateInputCall(cc) ==
    \E label \in Labels, value \in Texts, key \in KeyArgs :
        Call("date_input", cc, [key |-> key, default |-> value],
             StDateInput(Gen, cc, label, value, key), {})

TimeInputCall(cc) ==
    \E label \in Labels, value \in Texts, key \in KeyArgs :
        Call("time_input", cc, [key |-> key, default |-> value],
             StTimeInput(Gen, cc, label, value, key), {})

ColorPickerCall(cc) ==
    \E label \in Labels, value \in Texts, key \in KeyArgs :
        Call("color_picker", cc, [key |-> key, default |-> value],
             StColorPicker(Gen, cc, label, value, key), {})

FileUploaderCall(cc) ==
    \E label \in Labels, key \in KeyArgs :
        Call("file_uploader", cc, [key |-> key],
             StFileUploader(Gen, cc, label, key), {})

RadioCall(cc) ==
    \E label \in Labels, options \in OptionLists, index \in Indices,
       key \in KeyArgs :
        Call("radio", cc,
             [key |-> key, default |-> GetOrDefault(options, index)],
             StRadio(Gen, cc, label, options, index, key), {})

CameraInputCall(cc) ==
    \E label \in Labels, key \in KeyArgs :
        Call("camera_input", cc, [key |-> key],
             StCameraInput(Gen, cc, label, key), {})

ContainerCall(cc) ==
    LET r == StContainer(Gen, cc)
    IN  Call("container", cc, NoArgs, r, SeqToSet(r.ret))

ColumnsCall(cc) ==
    \E count \in ColumnCounts :
        LET r == StColumns(Gen, cc, count)
        IN  Call("columns", cc, NoArgs, r, SeqToSet(r.ret))

TabsCall(cc) ==
    \E labels \in TabLabels :
        LET r == StTabs(Gen, cc, labels)
        IN  Call("tabs", cc, NoArgs, r, SeqToSet(r.ret))

ExpanderCall(cc) ==
    \E label \in Labels :
        LET r == StExpander(Gen, cc, label)
        IN  Call("expander", cc, NoArgs, r, SeqToSet(r.ret))

SidebarCall(cc) ==
    LET r == StSidebar(Gen, cc)
    IN  Call("sidebar", cc, NoArgs, r, SeqToSet(r.ret))

\* st.delta_gen().next_element_id(), through any view
NextElementIdCall(cc) ==
    LET a == NextElementId(Gen)
    IN  /\ SetGen(a.gen)
        /\ issued' = Append(issued, a.id)
        /\ last_call' = [method |-> "next_element_id", via |-> cc,
                         args |-> NoArgs, ret |-> a.id]
        /\ last_take' = None
        /\ UNCHANGED <<containers, declared, recorded, takes, cleared, call_log,
                       ncalls>>
        /\ UNCHANGED execVars

\* take_deltas(), through any view.  The history keeps every take that
\* returned something, and the take just made (None after any other call)
TakeDeltasCall(cc) ==
    LET t == TakeDeltas(Gen)
    IN  /\ SetGen(t.gen)
        /\ takes' = IF t.out = << >> THEN takes
                     ELSE Append(takes, [via |-> cc, out |-> t.out])
        /\ last_take' = Some([via |-> cc, out |-> t.out])
        /\ last_call' = [method |-> "take_deltas", via |-> cc,
                         args |-> NoArgs, ret |-> Len(t.out)]
        /\ UNCHANGED <<containers, issued, declared, recorded, cleared, call_log,
                       ncalls>>
        /\ UNCHANGED execVars

\* delta_gen().clear() on the generator every view shares
ClearCall ==
    /\ SetGen(Clear(Gen))
    /\ cleared' = cleared \o deltas
    /\ last_call' = [method |-> "clear", via |-> None, args |-> NoArgs,
                     ret |-> 0]
    /\ last_take' = None
    /\ UNCHANGED <<containers, issued, declared, recorded, takes, ncalls,
                   call_log>>
    /\ UNCHANGED execVars

\* st.delta_gen().set_widget(key, value): the values a client can hold
StoredValues ==
    {WNumber(75), WString(<<"z">>), WBool(TRUE), WStringArray(<<(<<"y">>)>>)}

SetWidgetCall ==
    \E value \in StoredValues :
        /\ SetGen(SetWidget(Gen, "k", value))
        /\ last_call' = [method |-> "set_widget", via |-> None,
                         args |-> [key |-> Some("k")], ret |-> 0]
        /\ ncalls' = ncalls + 1
        /\ UNCHANGED <<containers, issued, declared, recorded, takes, call_log,
                       cleared, last_take>>
        /\ UNCHANGED execVars

NoCall == [method |-> "new", via |-> None, args |-> NoArgs, ret |-> 0]

InitCtx ==
    /\ elements = DeltaGeneratorNew.elements
    /\ widgets = DeltaGeneratorNew.widgets
    /\ deltas = DeltaGeneratorNew.deltas
    /\ next_element_id = DeltaGeneratorNew.next_element_id
    /\ containers = {}
    /\ issued = << >>
    /\ declared = << >>
    /\ recorded = << >>
    /\ takes = << >>
    /\ cleared = << >>
    /\ last_take = None
    /\ last_call = NoCall
    /\ ncalls = 0
    /\ call_log = << >>

\* callers of one shared executor, and connections of the server
Threads == {1, 2}
Conns == {1, 2}

\* a caller that has not called yet
ThreadIdle ==
    [pc |-> "idle", key |-> "", value |-> << >>, merged |-> EmptyMap,
     seeded |-> EmptyMap]

\* a connection that has not been accepted yet
ConnIdle ==
    [pc |-> "idle", session_id |-> None, widget_state |-> EmptyMap,
     last |-> None, own |-> EmptyMap, runs |-> 0]

\* DataCache::new, Navigation::new
DataCacheNew == EmptyMap
NavigationNew == [pages |-> EmptyMap, current_page |-> ""]

\* a thread that is not inside add_element
AdderIdle == [pc |-> "idle", id |-> 0, element_type |-> None, parent_id |-> None]

\* no caller, no session, no connection
InitIdle ==
    /\ cache = DataCacheNew
    /\ cache_log = [sets |-> EmptyMap, last |-> None]
    /\ nav = NavigationNew
    /\ nav_log = [added |-> << >>, navigated |-> FALSE, last |-> None]
    /\ adder = [t \in Threads |-> AdderIdle]
    /\ held = None
    /\ store_log = [created |-> {}, removed |-> {}, last |-> None]
    /\ written = EmptyMap
    /\ thread = [t \in Threads |-> ThreadIdle]
    /\ sessions = EmptyMap
    /\ conn = [c \in Conns |-> ConnIdle]
    /\ now = 0
    /\ elem = [obj |-> None, op |-> None]

\* the executor is not part of SpecGen and SpecSt
InitExecIdle ==
    /\ app = "none"
    /\ widget_state = EmptyMap
    /\ pc = "idle"
    /\ last = None
    /\ prev = None
    /\ InitIdle
    /\ wire = None

InitGen == InitCtx /\ InitExecIdle

NextGen ==
    \/ \E cc \in Views : next_element_id <= MaxId /\ NextElementIdCall(cc)
    \/ \E cc \in Views : next_element_id <= MaxId /\ Write(cc)
    \/ \E cc \in Views : next_element_id <= MaxId /\ ContainerCall(cc)
    \/ \E cc \in Views : TakeDeltasCall(cc)
    \/ ClearCall

SpecGen == InitGen /\ [][NextGen]_vars

InitSt == InitCtx /\ InitExecIdle

NextSt ==
    \/ \E cc \in Views : ncalls < MaxCalls /\ Write(cc)
    \/ \E cc \in Views : ncalls < MaxCalls /\ MarkdownCall(cc)
    \/ \E cc \in Views : ncalls < MaxCalls /\ CodeCall(cc)
    \/ \E cc \in Views : ncalls < MaxCalls /\ HeadingCall(cc)
    \/ \E cc \in Views : ncalls < MaxCalls /\ TitleCall(cc)
    \/ \E cc \in Views : ncalls < MaxCalls /\ HeaderCall(cc)
    \/ \E cc \in Views : ncalls < MaxCalls /\ SubheaderCall(cc)
    \/ \E cc \in Views : ncalls < MaxCalls /\ JsonCall(cc)
    \/ \E cc \in Views : ncalls < MaxCalls /\ ImageCall(cc)
    \/ \E cc \in Views : ncalls < MaxCalls /\ SuccessCall(cc)
    \/ \E cc \in Views : ncalls < MaxCalls /\ ErrorCall(cc)
    \/ \E cc \in Views : ncalls < MaxCalls /\ WarningCall(cc)
    \/ \E cc \in Views : ncalls < MaxCalls /\ InfoCall(cc)
    \/ \E cc \in Views : ncalls < MaxCalls /\ ProgressCall(cc)
    \/ \E cc \in Views : ncalls < MaxCalls /\ DividerCall(cc)
    \/ \E cc \in Views : ncalls < MaxCalls /\ EmptyCall(cc)
    \/ \E cc \in Views : ncalls < MaxCalls /\ MetricCall(cc)
    \/ \E cc \in Views : ncalls < MaxCalls /\ TableCall(cc)
    \/ \E cc \in Views : ncalls < MaxCalls /\ DataframeCall(cc)
    \/ \E cc \in Views : ncalls < MaxCalls /\ ButtonCall(cc)
    \/ \E cc \in Views : ncalls < MaxCalls /\ TextInputCall(cc)
    \/ \E cc \in Views : ncalls < MaxCalls /\ TextAreaCall(cc)
    \/ \E cc \in Views : ncalls < MaxCalls /\ NumberInputCall(cc)
    \/ \E cc \in Views : ncalls < MaxCalls /\ SliderCall(cc)
    \/ \E cc \in Views : ncalls < MaxCalls /\ CheckboxCall(cc)
    \/ \E cc \in Views : ncalls < MaxCalls /\ SelectboxCall(cc)
    \/ \E cc \in Views : ncalls < MaxCalls /\ MultiselectCall(cc)
    \/ \E cc \in Views : ncalls < MaxCalls /\ DateInputCall(cc)
    \/ \E cc \in Views : ncalls < MaxCalls /\ TimeInputCall(cc)
    \/ \E cc \in Views : ncalls < MaxCalls /\ ColorPickerCall(cc)
    \/ \E cc \in Views : ncalls < MaxCalls /\ FileUploaderCall(cc)
    \/ \E cc \in Views : ncalls < MaxCalls /\ RadioCall(cc)
    \/ \E cc \in Views : ncalls < MaxCalls /\ CameraInputCall(cc)
    \/ \E cc \in Views : ncalls < MaxCalls /\ ContainerCall(cc)
    \/ \E cc \in Views : ncalls < MaxCalls /\ ColumnsCall(cc)
    \/ \E cc \in Views : ncalls < MaxCalls /\ TabsCall(cc)
    \/ \E cc \in Views : ncalls < MaxCalls /\ ExpanderCall(cc)
    \/ \E cc \in Views : ncalls < MaxCalls /\ SidebarCall(cc)
    \/ ncalls < MaxCalls /\ SetWidgetCall

SpecSt == InitSt /\ [][NextSt]_vars

----------------------------------------------------------------------------
\* ScriptExecutor: the carried-forward widget state (key -> raw text) and
\* the rerun.

\* str::parse::<f64>() on the raw texts the model sends: an optional sign
\* followed by one or more decimal digits is a number, every other text
\* over letters, digits and signs is not.  (Texts with '.', an exponent or
\* the words inf / nan are not among the inputs.)
Digits == <<"0", "1", "2", "3", "4", "5", "6", "7", "8", "9">>
IsDigit(c) == \E d \in 1..10 : Digits[d] = c
DigitValue(c) == (CHOOSE d \in 1..10 : Digits[d] = c) - 1

RECURSIVE DecimalValue(_)
DecimalValue(s) ==
    IF s = << >> THEN 0
    ELSE 10 * DecimalValue(SubSeq(s, 1, Len(s) - 1)) + DigitValue(s[Len(s)])

AllDigits(s) == s # << >> /\ \A i \in 1..Len(s) : IsDigit(s[i])

ParseF64(s) ==
    IF AllDigits(s) THEN Some(DecimalValue(s))
    ELSE IF s # << >> /\ s[1] = "-" /\ AllDigits(Tail(s))
    THEN Some(0 - DecimalValue(Tail(s)))
    ELSE IF s # << >> /\ s[1] = "+" /\ AllDigits(Tail(s))
    THEN Some(DecimalValue(Tail(s)))
    ELSE None

\* n.to_string() of a non-negative JSON integer
RECURSIVE DecimalString(_)
DecimalString(n) ==
    IF n < 10 THEN <<Digits[n + 1]>>
    ELSE DecimalString(n \div 10) \o <<Digits[(n % 10) + 1]>>

\* the value of a text-frame widget_change as the text that is stored
ValueStr(value) ==
    CASE value.j = "String" -> value.s
      [] value.j = "Number" -> DecimalString(value.n)
      [] value.j = "Bool" ->
            IF value.b THEN <<"t", "r", "u", "e">> ELSE <<"f", "a", "l", "s", "e">>

\* mutant of the restore loop: every entry is seeded as a string
RECURSIVE RestoreWidgetsAsStrings(_, _, _)
RestoreWidgetsAsStrings(g, state, keys) ==
    IF keys = {} THEN g
    ELSE LET key == CHOOSE k \in keys : TRUE
         IN  RestoreWidgetsAsStrings(SetWidget(g, key, WString(state[key])),
                                     state, keys \ {key})

\* the restore loop of execute_script: number first, else string
RECURSIVE RestoreWidgets(_, _, _)
RestoreWidgets(g, state, keys) ==
    IF keys = {} THEN g
    ELSE LET key == CHOOSE k \in keys : TRUE
             num == ParseF64(state[key])
             value == IF IsSome(num) THEN WNumber(Unwrap(num))
                      ELSE WString(state[key])
         IN  RestoreWidgets(SetWidget(g, key, value), state, keys \ {key})

\* format!("Hello, {}!", name)
Hello(name) == <<"H", "e", "l", "l", "o", ",", " ">> \o name \o <<"!">>

\* the built-in demo application of run_app
DemoApp(g) ==
    LET r1 == StTitle(g, None, <<"P", "l", "a", "t", "y", "p", "u", "s", " ", "D", "e", "m", "o">>)
        r2 == StWrite(r1.gen, None, <<"W", "e", "l", "c", "o", "m", "e", " ", "t", "o", " ", "P", "l", "a", "t", "y", "p", "u", "s", "!">>)
        r3 == StTextInput(r2.gen, None, "Enter your name", <<"W", "o", "r", "l", "d">>,
                          Some("name_input"))
        r4 == StWrite(r3.gen, None, Hello(r3.ret))
        r5 == StButton(r4.gen, None, "Click me!", Some("demo_button"))
        r6 == IF r5.ret THEN StSuccess(r5.gen, None, <<"B", "u", "t", "t", "o", "n", " ", "c", "l", "i", "c", "k", "e", "d", "!">>).gen
              ELSE r5.gen
    IN  [gen |-> r6, err |-> None, name |-> Some(r3.ret),
         clicked |-> Some(r5.ret), checked |-> None, number |-> None]

\* an application function: title, a keyed text input, a greeting
GreetingApp(g) ==
    LET r1 == StTitle(g, None, <<"T">>)
        r2 == StTextInput(r1.gen, None, "Name", <<"W", "o", "r", "l", "d">>, Some("n"))
        r3 == StWrite(r2.gen, None, Hello(r2.ret))
    IN  [gen |-> r3.gen, err |-> None, name |-> Some(r2.ret),
         clicked |-> None, checked |-> None, number |-> None]

\* an application function that gives up with Err when the name is empty,
\* after it has declared the title and the input
ValidatingApp(g) ==
    LET r1 == StTitle(g, None, <<"T">>)
        r2 == StTextInput(r1.gen, None, "Name", <<"W", "o", "r", "l", "d">>, Some("n"))
        r3 == StWrite(r2.gen, None, Hello(r2.ret))
    IN  IF r2.ret = << >>
        THEN [gen |-> r2.gen, err |-> Some("name required"),
              name |-> Some(r2.ret), clicked |-> None, checked |-> None,
              number |-> None]
        ELSE [gen |-> r3.gen, err |-> None, name |-> Some(r2.ret),
              clicked |-> None, checked |-> None, number |-> None]

\* an application function: title, a keyed checkbox, a keyed number input
FormApp(g) ==
    LET r1 == StTitle(g, None, <<"T">>)
        r2 == StCheckbox(r1.gen, None, "Agree", FALSE, Some("c"))
        r3 == StNumberInput(r2.gen, None, "Age", 30, Some("a"))
    IN  [gen |-> r3.gen, err |-> None, name |-> None, clicked |-> None,
         checked |-> Some(r2.ret), number |-> Some(r3.ret)]

\* run_app: the application function if one was given, else the demo
RunApp(app_fn, g) ==
    IF IsSome(app_fn)
    THEN CASE Unwrap(app_fn) = "greeting" -> GreetingApp(g)
           [] Unwrap(app_fn) = "validating" -> ValidatingApp(g)
           [] Unwrap(app_fn) = "form" -> FormApp(g)
    ELSE DemoApp(g)

Ok(ds) == [ok |-> TRUE, deltas |-> ds]
Err(e) == [ok |-> FALSE, err |-> e]

\* mutant of execute_script: the restore loop drains the widget state
ExecuteScriptDrains(state, app_fn) ==
    LET delta_gen == RestoreWidgets(DeltaGeneratorNew, state, DOMAIN state)
        run == RunApp(app_fn, delta_gen)
    IN  [result |-> IF IsSome(run.err) THEN Err(Unwrap(run.err))
                    ELSE Ok(TakeDeltas(run.gen).out),
         state |-> EmptyMap,
         recorded |-> run.gen.deltas,
         seeded |-> delta_gen.widgets,
         name |-> run.name,
         clicked |-> run.clicked,
         checked |-> run.checked,
         number |-> run.number]

\* execute_script: a fresh generator seeded from the widget state, one run
\* of the application, then the deltas; on Err the `?` returns at once.
\* Besides the result: the widget state after the call, and what the run
\* recorded and read (observations).
ExecuteScript(state, app_fn) ==
    LET delta_gen == RestoreWidgets(DeltaGeneratorNew, state, DOMAIN state)
        run == RunApp(app_fn, delta_gen)
    IN  [result |-> IF IsSome(run.err) THEN Err(Unwrap(run.err))
                    ELSE Ok(TakeDeltas(run.gen).out),
         state |-> state,
         recorded |-> run.gen.deltas,
         seeded |-> delta_gen.widgets,
         name |-> run.name,
         clicked |-> run.clicked,
         checked |-> run.checked,
         number |-> run.number]

\* mutant of handle_widget_change: a key that already has a value keeps it
HandleWidgetChangeKeepsFirst(state, app_fn, widget_key, value) ==
    IF widget_key \in DOMAIN state THEN ExecuteScript(state, app_fn)
    ELSE ExecuteScript(MapInsert(state, widget_key, value), app_fn)

\* handle_widget_change: store the raw value, then rerun
HandleWidgetChange(state, app_fn, widget_key, value) ==
    ExecuteScript(MapInsert(state, widget_key, value), app_fn)

----------------------------------------------------------------------------
\* handle_socket: one connection, its executor, and the messages it handles.

\* message::deltas_to_json, the adapter handle_socket sends with.  A field
\* value (String, bool, number, Vec, Option) is carried as serde_json
\* writes it, which is the value itself; what the adapter decides is the
\* tag, the fields it copies, and the texts of the ids.

\* element_to_json, for the variants the builder methods record: the
\* layout variants are matched with `{ .. }` and carry their tag only
ElementToJson(element) ==
    CASE element.type = "Text" -> [type |-> "text", value |-> element.value]
      [] element.type = "Markdown" ->
            [type |-> "markdown", value |-> element.value]
      [] element.type = "Code" ->
            [type |-> "code", value |-> element.value,
             language |-> element.language]
      [] element.type = "Heading" ->
            [type |-> "heading", value |-> element.value,
             level |-> element.level]
      [] element.type = "Button" ->
            [type |-> "button", label |-> element.label, key |-> element.key]
      [] element.type = "TextInput" ->
            [type |-> "text_input", label |-> element.label,
             value |-> element.value, key |-> element.key]
      [] element.type = "TextArea" ->
            [type |-> "text_area", label |-> element.label,
             value |-> element.value, key |-> element.key]
      [] element.type = "NumberInput" ->
            [type |-> "number_input", label |-> element.label,
             value |-> element.value, key |-> element.key]
      [] element.type = "Slider" ->
            [type |-> "slider", label |-> element.label,
             value |-> element.value, min |-> element.min,
             max |-> element.max, key |-> element.key]
      [] element.type = "Checkbox" ->
            [type |-> "checkbox", label |-> element.label,
             value |-> element.value, key |-> element.key]
      [] element.type = "Selectbox" ->
            [type |-> "selectbox", label |-> element.label,
             options |-> element.options, value |-> element.value,
             key |-> element.key]
      [] element.type = "Multiselect" ->
            [type |-> "multiselect", label |-> element.label,
             options |-> element.options, values |-> element.values,
             key |-> element.key]
      [] element.type = "Json" -> [type |-> "json", value |-> element.value]
      [] element.type = "Image" ->
            [type |-> "image", src |-> element.src,
             caption |-> element.caption, width |-> element.width]
      [] element.type = "Divider" -> [type |-> "divider"]
      [] element.type = "Empty" -> [type |-> "empty"]
      [] element.type = "Success" ->
            [type |-> "success", message |-> element.message]
      [] element.type = "Error" ->
            [type |-> "error", message |-> element.message]
      [] element.type = "Warning" ->
            [type |-> "warning", message |-> element.message]
      [] element.type = "Info" ->
            [type |-> "info", message |-> element.message]
      [] element.type = "Metric" ->
            [type |-> "metric", label |-> element.label,
             value |-> element.value, delta |-> element.delta]
      [] element.type = "Progress" ->
            [type |-> "progress", value |-> element.value]
      [] element.type = "Column" -> [type |-> "column"]
      [] element.type = "Expander" -> [type |-> "expander"]
      [] element.type = "Sidebar" -> [type |-> "sidebar"]
      [] element.type = "Container" -> [type |-> "container"]
      [] element.type = "Radio" ->
            [type |-> "radio", label |-> element.label,
             options |-> element.options, value |-> element.value,
             key |-> element.key]
      [] element.type = "DateInput" ->
            [type |-> "date_input", label |-> element.label,
             value |-> element.value, key |-> element.key]
      [] element.type = "TimeInput" ->
            [type |-> "time_input", label |-> element.label,
             value |-> element.value, key |-> element.key]
      [] element.type = "ColorPicker" ->
            [type |-> "color_picker", label |-> element.label,
             value |-> element.value, key |-> element.key]
      [] element.type = "FileUploader" ->
            [type |-> "file_uploader", label |-> element.label,
             key |-> element.key]
      [] element.type = "Dataframe" ->
            [type |-> "dataframe", data |-> element.data]
      [] element.type = "Table" ->
            [type |-> "table", headers |-> element.headers,
             rows |-> element.rows]
      [] element.type = "CameraInput" ->
            [type |-> "camera_input", label |-> element.label,
             key |-> element.key]
      [] element.type = "Tabs" -> [type |-> "tabs", tabs |-> element.tabs]

\* id.inner().to_string()
IdString(id) == DecimalString(id)

\* one entry of "elements"
DeltaToJson(delta) ==
    CASE delta.op = "AddElement" ->
            [type |-> "add_element", id |-> IdString(delta.id),
             parent_id |-> IF delta.parent_id = None THEN None
                           ELSE Some(IdString(Unwrap(delta.parent_id))),
             element |-> ElementToJson(delta.element)]
      [] delta.op = "UpdateElement" ->
            [type |-> "update_element", id |-> IdString(delta.id),
             element |-> ElementToJson(delta.element)]
      [] delta.op = "RemoveElement" ->
            [type |-> "remove_element", id |-> IdString(delta.id)]
      [] delta.op = "ClearContainer" ->
            [type |-> "clear_container", id |-> IdString(delta.id)]

DeltasToJson(ds) ==
    [type |-> "delta",
     elements |-> [i \in 1..Len(ds) |-> DeltaToJson(ds[i])]]

\* The transcript of a connection: the messages the loop has received, each
\* with the widget state its handler left; the results of the script
\* executions made, and the frames sent, each tagged with the number of
\* messages received when it happened (0: before the loop).
NoTraffic == [received |-> << >>, ran |-> << >>, sent |-> << >>]

\* the transcript after a handler that received msgs (none or one), got
\* results from the executor, sent frames and left the widget state `state`
Logged(w, msgs, results, frames, state) ==
    IF w = None THEN None
    ELSE LET t == Unwrap(w)
             req == Len(t.received) + Len(msgs)
         IN  Some([received |->
                       t.received \o
                           [i \in 1..Len(msgs) |->
                                [msg |-> msgs[i], before |-> widget_state,
                                 state |-> state]],
                   ran |->
                       t.ran \o
                           [i \in 1..Len(results) |->
                                [req |-> req, result |-> results[i]]],
                   sent |->
                       t.sent \o
                           [i \in 1..Len(frames) |->
                                [req |-> req, frame |-> frames[i]]]])

\* message::deltas_to_json(deltas) sent as one text frame
DeltaBatch(ds) == [kind |-> "delta_batch", body |-> DeltasToJson(ds)]

\* The result handling shared by every branch: Ok(deltas) is handed to the
\* transport, Err(e) is logged and nothing is sent.
Handled(trigger, key, value, r) ==
    /\ widget_state' = r.state
    /\ prev' = last
    /\ last' = Some([trigger |-> trigger, key |-> key, value |-> value,
                     result |-> r.result,
                     delivered |-> IF r.result.ok THEN Some(r.result.deltas)
                                   ELSE None,
                     logged |-> IF r.result.ok THEN None
                                ELSE Some(r.result.err),
                     recorded |-> r.recorded,
                     seeded |-> r.seeded,
                     name |-> r.name,
                     clicked |-> r.clicked,
                     checked |-> r.checked,
                     number |-> r.number])
    /\ written' = IF trigger = "widget_change"
                  THEN MapInsert(written, Unwrap(key), Unwrap(value))
                  ELSE written
    /\ wire' = Logged(wire,
                       IF trigger = "initial" THEN << >>
                       ELSE <<[kind |-> trigger, key |-> key,
                               value |-> value]>>,
                       <<r.result>>,
                       IF r.result.ok THEN <<DeltaBatch(r.result.deltas)>>
                       ELSE << >>,
                       r.state)
    /\ UNCHANGED <<app, thread, elem, libVars>>
    /\ UNCHANGED sessVars
    /\ UNCHANGED ctxVars

\* raw texts a client sends
Alphabet == {"A", "7"}
RawTexts == UNION {[1..n -> Alphabet] : n \in 0..MaxLen}
JsonValues ==
    {[j |-> "String", s |-> s] : s \in RawTexts}
        \cup {[j |-> "Bool", b |-> b] : b \in BOOLEAN}
        \cup {[j |-> "Number", n |-> 42]}

\* the keys of the widgets an application shows to the client
KeysOf(app_fn) ==
    IF app_fn = None THEN {"name_input", "demo_button"}
    ELSE IF app_fn = Some("form") THEN {"c", "a"}
    ELSE {"n"}

\* the initial execute_script after the session and executor are created
InitialRun ==
    /\ pc = "connected"
    /\ pc' = "open"
    /\ Handled("initial", None, None, ExecuteScript(widget_state, app))

\* a binary WidgetStateChange message
RecvWidgetStateChange ==
    /\ pc = "open"
    /\ pc' = pc
    /\ \E widget_key \in KeysOf(app), value \in RawTexts :
           Handled("widget_change", Some(widget_key), Some(value),
                   HandleWidgetChange(widget_state, app, widget_key, value))

\* a binary RerunScript message
RecvRerunScript ==
    /\ pc = "open"
    /\ pc' = pc
    /\ Handled("rerun", None, None, ExecuteScript(widget_state, app))

\* a text widget_change message
RecvTextWidgetChange ==
    /\ pc = "open"
    /\ pc' = pc
    /\ \E key \in KeysOf(app), value \in JsonValues :
           Handled("widget_change", Some(key), Some(ValueStr(value)),
                   HandleWidgetChange(widget_state, app, key,
                                      ValueStr(value)))

\* a text button_click message: the script is rerun, nothing is stored
RecvButtonClick ==
    /\ pc = "open"
    /\ pc' = pc
    /\ \E key \in KeysOf(app) :
           Handled("button_click", Some(key), None,
                   ExecuteScript(widget_state, app))

\* mutant: a UserInteraction message reruns the script
RecvUserInteractionReruns ==
    /\ pc = "open"
    /\ pc' = pc
    /\ Handled("user_interaction", None, None,
               ExecuteScript(widget_state, app))

\* a binary UserInteraction message: it is traced, nothing else
RecvUserInteraction ==
    /\ pc = "open"
    /\ wire' = Logged(wire,
                       <<[kind |-> "user_interaction", key |-> None,
                          value |-> None]>>,
                       << >>, << >>, widget_state)
    /\ UNCHANGED <<app, widget_state, pc, last, prev, written, thread,
                   elem, libVars>>
    /\ UNCHANGED sessVars
    /\ UNCHANGED ctxVars

\* messages no branch decodes into a request: a binary frame that is no
\* BackMsg, a BackMsg without a type, a text frame that is no JSON or has
\* another type, a widget_change without key or value, a button_click
\* without key, and the frames of the `_ => {}` arm
Undecodable ==
    {"bad_binary", "no_type", "bad_json", "other_type", "no_key", "ping"}

RecvUndecodable ==
    /\ pc = "open"
    /\ \E kind \in Undecodable :
           wire' = Logged(wire,
                          <<[kind |-> kind, key |-> None, value |-> None]>>,
                          << >>, << >>, widget_state)
    /\ UNCHANGED <<app, widget_state, pc, last, prev, written, thread,
                   elem, libVars>>
    /\ UNCHANGED sessVars
    /\ UNCHANGED ctxVars

AppFns == {None, Some("greeting"), Some("validating"), Some("form")}

InitExec ==
    /\ InitCtx
    /\ app \in AppFns
    /\ widget_state = EmptyMap
    /\ pc = "connected"
    /\ last = None
    /\ prev = None
    /\ InitIdle
    /\ wire = None

NextExec ==
    \/ InitialRun
    \/ RecvWidgetStateChange
    \/ RecvRerunScript
    \/ RecvTextWidgetChange
    \/ RecvButtonClick

SpecExec == InitExec /\ [][NextExec]_vars

\* The same connection with its transcript kept, for as long as it has
\* received fewer than MaxMsgs messages.
InitWire ==
    /\ InitCtx
    /\ app \in {Some("greeting"), Some("validating")}
    /\ widget_state = EmptyMap
    /\ pc = "connected"
    /\ last = None
    /\ prev = None
    /\ InitIdle
    /\ wire = Some(NoTraffic)

Receiving == Len(Unwrap(wire).received) < MaxMsgs

NextWire ==
    \/ InitialRun
    \/ Receiving /\ RecvWidgetStateChange
    \/ Receiving /\ RecvRerunScript
    \/ Receiving /\ RecvTextWidgetChange
    \/ Receiving /\ RecvButtonClick
    \/ Receiving /\ RecvUserInteraction
    \/ Receiving /\ RecvUndecodable

SpecWire == InitWire /\ [][NextWire]_vars

----------------------------------------------------------------------------
\* Properties of the run context

\* the value-returning input widgets and the WidgetValue variant each reads
ValueWidgets ==
    {"text_input", "text_area", "number_input", "slider", "checkbox",
     "selectbox", "radio", "multiselect", "date_input", "time_input",
     "color_picker"}

WidgetType(method) ==
    CASE method \in {"number_input", "slider"} -> "Number"
      [] method = "checkbox" -> "Bool"
      [] method = "multiselect" -> "StringArray"
      [] OTHER -> "String"

Payload(v) ==
    CASE v.t = "String" -> v.s
      [] v.t = "Number" -> v.n
      [] v.t = "Bool" -> v.b
      [] v.t = "StringArray" -> v.a

IdsOf(ds) == {ds[i].id : i \in 1..Len(ds)}

IncreasingIds(ds) ==
    \A i, j \in 1..Len(ds) : i < j => ds[i].id < ds[j].id

RECURSIVE Flatten(_)
Flatten(ts) ==
    IF ts = << >> THEN << >> ELSE Head(ts).out \o Flatten(Tail(ts))

\* every delta a take_deltas call has returned, in the order returned
Taken == Flatten(takes)

\* the history entry of the element with this id
DeclOf(id) == declared[CHOOSE p \in 1..Len(declared) : declared[p].id = id]
DeclPos(id) == CHOOSE p \in 1..Len(declared) : declared[p].id = id

\* C1: a value-returning input widget called with key k returns the
\* script-supplied default when the store holds nothing under k, and the
\* stored value when the store holds a value of the widget's type under k.
C1_ValueCarryForward ==
    (last_call.method \in ValueWidgets /\ IsSome(last_call.args.key)) =>
        LET w == MapGet(widgets, Unwrap(last_call.args.key))
        IN  /\ ~IsSome(w) => last_call.ret = last_call.args.default
            /\ (IsSome(w) /\ Unwrap(w).t = WidgetType(last_call.method)) =>
                   last_call.ret = Payload(Unwrap(w))

\* slider("L", 0, 100, 50, key = "k") returns 75 after Number(75) was stored
C1_Witness ==
    /\ last_call.method = "slider"
    /\ last_call.args.key = Some("k")
    /\ "k" \in DOMAIN widgets
    /\ widgets["k"].t = "Number"
    /\ last_call.ret = 75

\* C5: the ids returned by next_element_id / add_element within one run
\* context start at 1 and are strictly increasing (so never repeat), through
\* whichever view they are requested, also after clear().
C5_MonotonicIdentity ==
    /\ Len(issued) >= 1 => issued[1] = 1
    /\ \A i, j \in 1..Len(issued) : i < j => issued[i] < issued[j]

\* an id issued through a container view after clear() emptied the context
C5_Witness ==
    /\ Len(issued) = 3
    /\ DOMAIN elements = {3}
    /\ Len(declared) >= 2
    /\ declared[Len(declared)].via # None

\* C6: the AddElement deltas of the log, and of every batch taken from it,
\* are in the order their elements were declared (increasing id), also when
\* declarations alternate between the top-level context and container views.
InDeclarationOrder(ds) ==
    /\ IncreasingIds(ds)
    /\ \A i \in 1..Len(ds) : \E p \in 1..Len(declared) : declared[p].id = ds[i].id
    /\ \A i, j \in 1..Len(ds) : i < j => DeclPos(ds[i].id) < DeclPos(ds[j].id)

C6_DeltaOrderIsDeclarationOrder ==
    /\ InDeclarationOrder(deltas)
    /\ \A t \in 1..Len(takes) : InDeclarationOrder(takes[t].out)
    /\ IsSome(last_take) => InDeclarationOrder(Unwrap(last_take).out)

\* a batch of three: a container, a child declared through its view, then an
\* element declared on the top-level context
C6_Witness ==
    /\ IsSome(last_take)
    /\ LET out == Unwrap(last_take).out
       IN  /\ Len(out) = 3
           /\ out[1].element.type = "Container"
           /\ out[2].parent_id = Some(out[1].id)
           /\ out[3].parent_id = None

TabsOfCall(c) ==
    CHOOSE i \in 1..Len(recorded) :
        /\ DeclOf(recorded[i].id).call = c
        /\ recorded[i].element.type = "Tabs"

C10_EveryDeltaTakenOnce ==
    /\ Taken \o deltas = recorded
    /\ last_call.method = "take_deltas" => deltas = << >>

\* C10 amended: take_deltas returns, in recording order, the deltas recorded
\* since the previous take that clear() has not discarded, and leaves the log
\* empty; a recorded delta is returned by at most one take, and by exactly
\* one unless clear() discarded it first; a take with nothing recorded since
\* the last one returns the empty list.
C10_TakeDeltasExactlyOnce ==
    LET taken == Taken
        taken_ids == IdsOf(taken)
        cleared_ids == IdsOf(cleared)
        log_ids == IdsOf(deltas)
    IN  /\ IncreasingIds(taken)
        /\ IncreasingIds(cleared)
        /\ taken_ids \cap cleared_ids = {}
        /\ taken_ids \cap log_ids = {}
        /\ cleared_ids \cap log_ids = {}
        /\ taken_ids \cup cleared_ids \cup log_ids = IdsOf(recorded)
        /\ \A i \in 1..Len(recorded) :
               recorded[i].id \in taken_ids =>
                   \E j \in 1..Len(taken) : taken[j] = recorded[i]
        /\ last_call.method = "take_deltas" =>
               /\ deltas = << >>
               /\ IsSome(last_take)
               /\ Unwrap(last_take).out = << >> =>
                      IdsOf(recorded) = taken_ids \cup cleared_ids

\* two takes through different views of the same run, each returning deltas
C10_Witness ==
    \E i, j \in 1..Len(takes) :
        /\ i < j
        /\ takes[i].via # takes[j].via

----------------------------------------------------------------------------
\* Properties of the executor and of the connection

\* the deltas of a batch without their ids: discriminant and element
Shape(ds) == [i \in 1..Len(ds) |-> [op |-> ds[i].op, element |-> ds[i].element]]

SameDeltas(a, b) ==
    /\ a.ok = b.ok
    /\ a.ok => Shape(a.deltas) = Shape(b.deltas)

\* a handled message that reran the script without storing a value
IsPlainRerun(l) == l.trigger \in {"rerun", "button_click"}

\* C2 as stated: on the demo application, button("Click me!", demo_button)
\* returns true on the rerun triggered by a click on demo_button and false
\* on every other run (no stored click, or the click already consumed).
C2_ButtonPulse ==
    (app = None /\ IsSome(last)) =>
        LET l == Unwrap(last)
            click == l.trigger = "button_click" /\ l.key = Some("demo_button")
        IN  l.clicked = Some(click)

\* C3 as stated: for the script title; name = text_input("Name", "World",
\* key n); write("Hello, {name}!"), the first run yields exactly three
\* AddElement deltas with name equal to the default, and the rerun made by
\* handle_widget_change(n, v) has name = v and the Text payload "Hello, v!",
\* for every raw text v.
C3_EndToEndRerun ==
    (app = Some("greeting") /\ IsSome(last)) =>
        LET l == Unwrap(last)
        IN  /\ l.trigger = "initial" =>
                   /\ l.result.ok
                   /\ Len(l.result.deltas) = 3
                   /\ \A i \in 1..3 : l.result.deltas[i].op = "AddElement"
                   /\ l.name = Some(<<"W", "o", "r", "l", "d">>)
            /\ l.trigger = "widget_change" =>
                   /\ l.result.ok
                   /\ l.name = l.value
                   /\ Len(l.result.deltas) = 3
                   /\ l.result.deltas[3].element = Text(Hello(Unwrap(l.value)))

\* C4 as stated: when the application fails part-way through a run, every
\* delta recorded before the failure point is still delivered, and the
\* failure is reported out of band, not as a delta.
C4_PartialDeltasDelivered ==
    (IsSome(last) /\ ~Unwrap(last).result.ok) =>
        LET l == Unwrap(last)
        IN  /\ l.delivered = Some(l.recorded)
            /\ l.logged = Some(l.result.err)

\* C8: two consecutive runs of the same script on the same session with no
\* widget change between them give batches of equal length whose i-th
\* deltas agree in discriminant, element kind and payload.
C8_RerunDeterminism ==
    (IsSome(last) /\ IsSome(prev) /\ IsPlainRerun(Unwrap(last))) =>
        SameDeltas(Unwrap(prev).result, Unwrap(last).result)

\* a rerun after a widget change that the script read, both delivering the
\* greeting for the changed name
C8_Witness ==
    /\ IsSome(last)
    /\ IsSome(prev)
    /\ Unwrap(last).trigger = "rerun"
    /\ Unwrap(prev).trigger = "widget_change"
    /\ Unwrap(prev).name = Some(<<"A">>)
    /\ Unwrap(last).result.ok
    /\ Len(Unwrap(last).result.deltas) >= 3

\* C9: every batch execute_script or handle_widget_change returns is solely
\* AddElement deltas whose ids are 1..n in order, however many reruns came
\* before it; nothing is carried over from an earlier run's context.
C9_FullRebuild ==
    (IsSome(last) /\ Unwrap(last).result.ok) =>
        LET ds == Unwrap(last).result.deltas
        IN  /\ \A i \in 1..Len(ds) :
                   /\ ds[i].op = "AddElement"
                   /\ ds[i].id = i
            /\ ds = Unwrap(last).recorded

\* a batch returned by handle_widget_change after an earlier run delivered
\* its own batch
C9_Witness ==
    /\ IsSome(last)
    /\ IsSome(prev)
    /\ Unwrap(prev).result.ok
    /\ Len(Unwrap(prev).result.deltas) >= 3
    /\ Unwrap(last).trigger = "widget_change"
    /\ Unwrap(last).result.ok
    /\ Len(Unwrap(last).result.deltas) >= 3

\* the value the restore loop seeds for a raw text
Seeded(raw) ==
    IF IsSome(ParseF64(raw)) THEN WNumber(Unwrap(ParseF64(raw)))
    ELSE WString(raw)

\* C14: after any sequence of widget changes the snapshot holds, for each
\* key, exactly the value of the most recent change to that key and nothing
\* for a key that was never changed, and the next rerun is seeded with
\* exactly these values.
C14_LastWriteWins ==
    /\ DOMAIN widget_state = DOMAIN written
    /\ \A k \in DOMAIN written : widget_state[k] = written[k]
    /\ IsSome(last) =>
           /\ DOMAIN Unwrap(last).seeded = DOMAIN written
           /\ \A k \in DOMAIN written :
                  Unwrap(last).seeded[k] = Seeded(written[k])

\* two changes of one key with different values, the rerun seeded with the
\* later one, and the other key of the form never changed
C14_Witness ==
    /\ app = Some("form")
    /\ IsSome(last)
    /\ IsSome(prev)
    /\ Unwrap(prev).trigger = "widget_change"
    /\ Unwrap(last).trigger = "widget_change"
    /\ Unwrap(prev).key = Some("c")
    /\ Unwrap(last).key = Some("c")
    /\ Unwrap(prev).value = Some(<<"A">>)
    /\ Unwrap(last).value = Some(<<"7">>)
    /\ Unwrap(last).seeded["c"] = WNumber(7)
    /\ "a" \notin DOMAIN Unwrap(last).seeded

\* C15 as stated: a wrong-typed incoming value (a text that is no number,
\* sent to the number input of the form) is no update: the rerun completes
\* without error and the number input returns what it returned on the run
\* before.
C15_WrongTypeIsNoUpdate ==
    (/\ app = Some("form")
     /\ IsSome(last)
     /\ IsSome(prev)
     /\ Unwrap(last).trigger = "widget_change"
     /\ Unwrap(last).key = Some("a")
     /\ ParseF64(Unwrap(Unwrap(last).value)) = None) =>
        /\ Unwrap(last).result.ok
        /\ Unwrap(last).number = Unwrap(prev).number

\* C16 as stated: raw values are coerced by the declaring widget's type:
\* after a change of the checkbox key to "true" the checkbox returns true
\* ("false": false), and a text sent to a text input is read back as that
\* text, numeric-looking or not.
C16_CoercedByWidgetType ==
    (IsSome(last) /\ Unwrap(last).trigger = "widget_change") =>
        LET l == Unwrap(last)
        IN  /\ (app = Some("form") /\ l.key = Some("c")) =>
                   /\ l.value = Some(<<"t", "r", "u", "e">>) => l.checked = Some(TRUE)
                   /\ l.value = Some(<<"f", "a", "l", "s", "e">>) => l.checked = Some(FALSE)
            /\ (app = Some("greeting") /\ l.key = Some("n")) =>
                   l.name = l.value

----------------------------------------------------------------------------
\* A run context seeded with one stored value, and the input widgets called
\* on it by the script (top-level context).

InputWidgets == ValueWidgets \cup {"button", "file_uploader", "camera_input"}

\* the default key of an input call without a caller-supplied key: the role
\* and the label
DefaultKey(method, label) ==
    IF method = "camera_input" THEN "camera_" \o label
    ELSE method \o "_" \o label

ExpectedType(method) ==
    IF method = "button" THEN "Bool" ELSE WidgetType(method)

\* the stores the executor can leave before the script runs: nothing, a value
\* under the key "k", or a value of its type under a widget's default key
SeededStores ==
    {EmptyMap}
        \cup {MapInsert(EmptyMap, "k", v) : v \in StoredValues}
        \cup {MapInsert(EmptyMap, DefaultKey(m, "L"),
                        CHOOSE v \in StoredValues : v.t = ExpectedType(m)) :
                  m \in InputWidgets}

InitKey ==
    /\ elements = DeltaGeneratorNew.elements
    /\ widgets \in SeededStores
    /\ deltas = DeltaGeneratorNew.deltas
    /\ next_element_id = DeltaGeneratorNew.next_element_id
    /\ containers = {}
    /\ issued = << >>
    /\ declared = << >>
    /\ recorded = << >>
    /\ takes = << >>
    /\ cleared = << >>
    /\ last_take = None
    /\ last_call = NoCall
    /\ ncalls = 0
    /\ call_log = << >>
    /\ InitExecIdle

NextKey ==
    \/ ncalls < MaxCalls /\ ButtonCall(None)
    \/ ncalls < MaxCalls /\ TextInputCall(None)
    \/ ncalls < MaxCalls /\ TextAreaCall(None)
    \/ ncalls < MaxCalls /\ NumberInputCall(None)
    \/ ncalls < MaxCalls /\ SliderCall(None)
    \/ ncalls < MaxCalls /\ CheckboxCall(None)
    \/ ncalls < MaxCalls /\ SelectboxCall(None)
    \/ ncalls < MaxCalls /\ MultiselectCall(None)
    \/ ncalls < MaxCalls /\ DateInputCall(None)
    \/ ncalls < MaxCalls /\ TimeInputCall(None)
    \/ ncalls < MaxCalls /\ ColorPickerCall(None)
    \/ ncalls < MaxCalls /\ FileUploaderCall(None)
    \/ ncalls < MaxCalls /\ RadioCall(None)
    \/ ncalls < MaxCalls /\ CameraInputCall(None)

SpecKey == InitKey /\ [][NextKey]_vars

\* a logged call found a stored value under the key it resolved
Hit(c) ==
    CASE c.method = "button" -> c.ret
      [] c.method \in {"file_uploader", "camera_input"} -> IsSome(c.ret)
      [] OTHER -> c.ret # c.args.default

\* C17 as stated: every input call, button, file_uploader and camera_input
\* included, looks the store up under the caller-supplied key if given, else
\* under the default key built from its role and label, and returns the
\* value of its type stored there; button(label, None) returns true when a
\* click is stored under its default key.
C17_EffectiveKeyLookup ==
    (last_call.method \in InputWidgets) =>
        LET key == UnwrapOr(last_call.args.key,
                            DefaultKey(last_call.method, "L"))
            w == MapGet(widgets, key)
        IN  (IsSome(w) /\ Unwrap(w).t = ExpectedType(last_call.method)) =>
                Hit(last_call)

\* C18: within one run, two calls of the same input method with the same
\* label and no explicit key read the same stored value, and calls of
\* different roles with the same label never read the same store entry.
C18_KeyDeterminism ==
    \A i, j \in 1..Len(call_log) :
        (/\ i < j
         /\ call_log[i].args.key = None
         /\ call_log[j].args.key = None) =>
            IF call_log[i].method = call_log[j].method
            THEN /\ Hit(call_log[i]) = Hit(call_log[j])
                 /\ Hit(call_log[i]) => call_log[i].ret = call_log[j].ret
            ELSE ~(Hit(call_log[i]) /\ Hit(call_log[j]))

\* text_input("L", _, None) called twice, both reading the value stored
\* under its default key, after which text_area would find nothing
C18_Witness ==
    /\ Len(call_log) >= 2
    /\ call_log[1].method = "text_input"
    /\ call_log[2].method = "text_input"
    /\ call_log[1].args.key = None
    /\ call_log[2].args.key = None
    /\ Hit(call_log[1])
    /\ Hit(call_log[2])
    /\ "text_input_L" \in DOMAIN widgets

----------------------------------------------------------------------------
\* Two callers sharing one ScriptExecutor (it is Send + Sync): each
\* handle_widget_change call takes the widget_state lock twice, once to
\* store its value and once, inside execute_script, to seed the run.

\* first lock of handle_widget_change: state.insert(key, value)
MergeStep(t) ==
    /\ thread[t].pc = "idle"
    /\ \E widget_key \in KeysOf(app), value \in RawTexts :
           /\ widget_state' = MapInsert(widget_state, widget_key, value)
           /\ thread' = [thread EXCEPT ![t] =
                            [pc |-> "merged", key |-> widget_key,
                             value |-> value, merged |-> widget_state',
                             seeded |-> EmptyMap]]
    /\ UNCHANGED <<app, pc, last, prev, written, wire, elem, libVars>>
    /\ UNCHANGED sessVars
    /\ UNCHANGED ctxVars

\* second lock, in execute_script: the restore loop and the run
SeedStep(t) ==
    /\ thread[t].pc = "merged"
    /\ LET r == ExecuteScript(widget_state, app)
       IN  /\ widget_state' = r.state
           /\ thread' = [thread EXCEPT ![t].pc = "done",
                                       ![t].seeded = r.seeded]
    /\ UNCHANGED <<app, pc, last, prev, written, wire, elem, libVars>>
    /\ UNCHANGED sessVars
    /\ UNCHANGED ctxVars

\* the call returns; the caller may call again
ReturnStep(t) ==
    /\ thread[t].pc = "done"
    /\ thread' = [thread EXCEPT ![t] = ThreadIdle]
    /\ UNCHANGED <<app, widget_state, pc, last, prev, written, wire,
                   elem, libVars>>
    /\ UNCHANGED sessVars
    /\ UNCHANGED ctxVars

InitConc ==
    /\ InitCtx
    /\ app \in {Some("greeting"), Some("form")}
    /\ widget_state = EmptyMap
    /\ pc = "idle"
    /\ last = None
    /\ prev = None
    /\ InitIdle
    /\ wire = None

NextConc ==
    \/ \E t \in Threads : MergeStep(t)
    \/ \E t \in Threads : SeedStep(t)
    \/ \E t \in Threads : ReturnStep(t)

SpecConc == InitConc /\ [][NextConc]_vars

\* C12 as stated: when handle_widget_change calls on one session overlap,
\* each call's rerun is seeded from the snapshot exactly as it stood right
\* after that call's own merge.
C12_AtomicMergeThenSeed ==
    \A t \in Threads :
        thread[t].pc = "done" =>
            /\ DOMAIN thread[t].seeded = DOMAIN thread[t].merged
            /\ \A k \in DOMAIN thread[t].merged :
                   thread[t].seeded[k] = Seeded(thread[t].merged[k])

----------------------------------------------------------------------------
\* Session, SessionStore, and the connections of the server.  Each accepted
\* connection runs handle_socket with a session and an executor of its own.

\* Session::new at clock reading t
SessionNew(id, t) ==
    [id |-> id, script_hash |-> "app", reruns |-> 0, created_at |-> t,
     last_activity |-> t]

\* Session::is_stale at clock reading t
IsStale(session, t, timeout_secs) == t - session.last_activity > timeout_secs

CreateSession(store, id, t) == MapInsert(store, id, SessionNew(id, t))

RemoveSession(store, session_id) ==
    [x \in DOMAIN store \ {session_id} |-> store[x]]

\* mutant of the sweep: a session idle for exactly the timeout goes too
CleanupStaleSessionsEager(store, t, timeout_secs) ==
    [x \in {y \in DOMAIN store : t - store[y].last_activity < timeout_secs} |->
         store[x]]

CleanupStaleSessions(store, t, timeout_secs) ==
    [x \in {y \in DOMAIN store : ~IsStale(store[y], t, timeout_secs)} |->
         store[x]]

\* mutant: one widget state shared by the executors of all connections
WithSharedState(cn, c, state) ==
    [d \in Conns |-> [cn[d] EXCEPT !.widget_state = state]]

\* the widget_state of the executor that connection c created
WithExecutorState(cn, c, state) == [cn EXCEPT ![c].widget_state = state]

SessApp == Some("greeting")

\* What the handler of connection c does with the result r of a rerun: the
\* executor keeps its widget state, Ok(deltas) is sent, Err is logged.
\* Observations: whether the session was absent from the store when the
\* request came, the latest change per key handled for c, and the number
\* of reruns completed for c (counted up to 2).
Served(c, trigger, key, value, r) ==
    conn' = [WithExecutorState(conn, c, r.state) EXCEPT
                 ![c].pc = "open",
                 ![c].session_id = Some(c),
                 ![c].last =
                     Some([trigger |-> trigger, key |-> key, value |-> value,
                           result |-> r.result,
                           delivered |-> IF r.result.ok
                                         THEN Some(r.result.deltas)
                                         ELSE None,
                           name |-> r.name,
                           missing |-> (/\ trigger # "initial"
                                        /\ c \notin DOMAIN sessions)]),
                 ![c].own = IF trigger = "widget_change"
                            THEN MapInsert(conn[c].own, Unwrap(key),
                                           Unwrap(value))
                            ELSE conn[c].own,
                 ![c].runs = IF conn[c].runs < 2 THEN conn[c].runs + 1
                             ELSE 2]

\* handle_socket up to its first wait: create_session, the executor, the
\* initial execute_script.  Uuid::new_v4() is a fresh id, here the number
\* of the connection.
Accept(c) ==
    /\ conn[c].pc = "idle"
    /\ sessions' = CreateSession(sessions, c, now)
    /\ Served(c, "initial", None, None, ExecuteScript(EmptyMap, SessApp))
    /\ UNCHANGED <<app, widget_state, pc, last, prev, written, thread, wire, elem, libVars,
                   now>>
    /\ UNCHANGED ctxVars

\* a widget change message (binary or text) on connection c
RecvChange(c) ==
    /\ conn[c].pc = "open"
    /\ \E key \in KeysOf(SessApp), value \in RawTexts :
           Served(c, "widget_change", Some(key), Some(value),
                  HandleWidgetChange(conn[c].widget_state, SessApp, key,
                                     value))
    /\ UNCHANGED <<app, widget_state, pc, last, prev, written, thread, wire, elem, libVars,
                   sessions, now>>
    /\ UNCHANGED ctxVars

\* a RerunScript or button_click message on connection c
RecvRerun(c) ==
    /\ conn[c].pc = "open"
    /\ Served(c, "rerun", None, None,
              ExecuteScript(conn[c].widget_state, SessApp))
    /\ UNCHANGED <<app, widget_state, pc, last, prev, written, thread, wire, elem, libVars,
                   sessions, now>>
    /\ UNCHANGED ctxVars

\* a Close frame: the session is removed and the handler ends
RecvClose(c) ==
    /\ conn[c].pc = "open"
    /\ sessions' = RemoveSession(sessions, Unwrap(conn[c].session_id))
    /\ conn' = [conn EXCEPT ![c].pc = "ended"]
    /\ UNCHANGED <<app, widget_state, pc, last, prev, written, thread, wire, elem, libVars,
                   now>>
    /\ UNCHANGED ctxVars

\* a transport error: the session is removed and the handler ends
RecvError(c) ==
    /\ conn[c].pc = "open"
    /\ sessions' = RemoveSession(sessions, Unwrap(conn[c].session_id))
    /\ conn' = [conn EXCEPT ![c].pc = "ended"]
    /\ UNCHANGED <<app, widget_state, pc, last, prev, written, thread, wire, elem, libVars,
                   now>>
    /\ UNCHANGED ctxVars

\* receiver.next() returns None: the while loop and the handler end
StreamEnd(c) ==
    /\ conn[c].pc = "open"
    /\ conn' = [conn EXCEPT ![c].pc = "ended"]
    /\ UNCHANGED <<app, widget_state, pc, last, prev, written, thread, wire, elem, libVars,
                   sessions, now>>
    /\ UNCHANGED ctxVars

\* the system clock advances by a second
Tick ==
    /\ now < MaxTime
    /\ now' = now + 1
    /\ UNCHANGED <<app, widget_state, pc, last, prev, written, thread, wire, elem, libVars,
                   sessions, conn>>
    /\ UNCHANGED ctxVars

\* the host runs the sweep
Timeouts == {0, 1}

Sweep ==
    /\ \E timeout_secs \in Timeouts :
           sessions' = CleanupStaleSessions(sessions, now, timeout_secs)
    /\ UNCHANGED <<app, widget_state, pc, last, prev, written, thread, wire, elem, libVars,
                   conn, now>>
    /\ UNCHANGED ctxVars

InitSess ==
    /\ InitCtx
    /\ InitExecIdle

NextSess ==
    \/ \E c \in Conns : Accept(c)
    \/ \E c \in Conns : RecvChange(c)
    \/ \E c \in Conns : RecvRerun(c)
    \/ \E c \in Conns : RecvClose(c)
    \/ \E c \in Conns : RecvError(c)
    \/ \E c \in Conns : StreamEnd(c)
    \/ Tick
    \/ Sweep

SpecSess == InitSess /\ [][NextSess]_vars

\* C11: the value a rerun of a session reads depends only on the changes
\* handled for that session: the executor's snapshot is exactly the latest
\* change per key handled on its own connection, and the name the last run
\* read is the one a run seeded from these changes alone reads, whatever
\* was handled for the other sessions.
C11_SessionIsolation ==
    \A c \in Conns :
        /\ conn[c].widget_state = conn[c].own
        /\ IsSome(conn[c].last) =>
               Unwrap(conn[c].last).name =
                   ExecuteScript(conn[c].own, SessApp).name

\* both sessions have handled a change of the same key, to different
\* values, and the rerun of each read its own
C11_Witness ==
    /\ IsSome(conn[1].last)
    /\ IsSome(conn[2].last)
    /\ Unwrap(conn[1].last).trigger = "widget_change"
    /\ Unwrap(conn[2].last).trigger = "widget_change"
    /\ Unwrap(conn[1].last).name = Some(<<"A">>)
    /\ Unwrap(conn[2].last).name = Some(<< >>)

\* C13 as stated: a rerun request for a session that is not in the session
\* store fails with an error and delivers no delta batch.
C13_VanishedSessionNotFound ==
    \A c \in Conns :
        (IsSome(conn[c].last) /\ Unwrap(conn[c].last).missing) =>
            /\ ~Unwrap(conn[c].last).result.ok
            /\ Unwrap(conn[c].last).delivered = None

\* C19 as stated: once the handler of a connection has ended, for any
\* reason, its session is no longer in the session store.
C19_SessionGoneAfterDisconnect ==
    \A c \in Conns :
        conn[c].pc = "ended" =>
            Unwrap(conn[c].session_id) \notin DOMAIN sessions

\* C20 as stated: the stored session's rerun counter equals the number of
\* reruns completed for it (the model counts them up to 2, 2 standing for
\* two or more), and its last activity is not before its creation.
C20_RerunsCounted ==
    \A c \in Conns :
        (/\ IsSome(conn[c].session_id)
         /\ Unwrap(conn[c].session_id) \in DOMAIN sessions) =>
            LET session == sessions[Unwrap(conn[c].session_id)]
            IN  /\ IF conn[c].runs < 2 THEN session.reruns = conn[c].runs
                   ELSE session.reruns >= 2
                /\ session.last_activity >= session.created_at

----------------------------------------------------------------------------
\* The running server.  AppServer::run serves the router of build_router:
\* the handlers of the connections are its only tasks, it spawns no timer
\* and nothing in it calls cleanup_stale_sessions.  The clock advances by
\* itself; every other step waits for a client, or for a host that calls
\* the sweep, so only Tick is fair.
SpecServe == SpecSess /\ WF_vars(Tick)

\* the session of connection c is in the store and has had no activity for
\* longer than timeout_secs
IdleBeyond(c, timeout_secs) ==
    /\ c \in DOMAIN sessions
    /\ IsStale(sessions[c], now, timeout_secs)

\* C21 as stated: a session that has been idle for longer than the session
\* timeout is eventually removed from the session store, whatever its
\* client does.
C21_IdleSweepLiveness ==
    \A c \in Conns : \A timeout_secs \in Timeouts :
        IdleBeyond(c, timeout_secs) ~> (c \notin DOMAIN sessions)

----------------------------------------------------------------------------
\* Properties of the transcript of a connection (SpecWire).

\* the positions of the log entries made for request number i
EntriesFor(log, i) == {j \in 1..Len(log) : log[j].req = i}

\* C22 as stated: once the connection is set up, exactly one "new session"
\* frame has been sent on it, and it is the first frame sent, so no delta
\* batch precedes it.
C22_NewSessionFirst ==
    pc = "open" =>
        LET sent == Unwrap(wire).sent
        IN  /\ Cardinality({j \in 1..Len(sent) :
                                sent[j].frame.kind = "new_session"}) = 1
            /\ sent[1].frame.kind = "new_session"

\* the messages that ask for a rerun
Requests == {"widget_change", "rerun", "button_click"}

\* C23: for every widget-change, rerun or button-click message received
\* the script was executed exactly once, also when the run failed, and at
\* most one delta batch was sent for it, carrying the deltas of that run;
\* the batches were sent in the order of their requests; for a user
\* interaction or an undecodable message nothing was executed, nothing was
\* sent and the widget state stayed as it was.
C23_OneRunPerRequest ==
    IsSome(wire) =>
        LET t == Unwrap(wire)
        IN  /\ \A i \in 1..Len(t.received) :
                   IF t.received[i].msg.kind \in Requests
                   THEN /\ Cardinality(EntriesFor(t.ran, i)) = 1
                        /\ Cardinality(EntriesFor(t.sent, i)) <= 1
                        /\ \A j \in EntriesFor(t.sent, i) :
                               \A k \in EntriesFor(t.ran, i) :
                                   /\ t.ran[k].result.ok
                                   /\ t.sent[j].frame =
                                          DeltaBatch(t.ran[k].result.deltas)
                   ELSE /\ EntriesFor(t.ran, i) = {}
                        /\ EntriesFor(t.sent, i) = {}
                        /\ t.received[i].state = t.received[i].before
            /\ \A j, k \in 1..Len(t.sent) :
                   j < k => t.sent[j].req < t.sent[k].req

\* a widget change whose run failed (one execution, no batch), followed by
\* a user interaction, after changes had been stored
C23_Witness ==
    /\ IsSome(wire)
    /\ Len(Unwrap(wire).received) = 2
    /\ Unwrap(wire).received[1].msg.kind = "widget_change"
    /\ Unwrap(wire).received[2].msg.kind = "user_interaction"
    /\ Unwrap(wire).received[2].before # EmptyMap
    /\ \E k \in EntriesFor(Unwrap(wire).ran, 1) :
           ~Unwrap(wire).ran[k].result.ok
    /\ Len(Unwrap(wire).sent) = 1

----------------------------------------------------------------------------
\* Validation of what a script declares (SpecSt).

\* C24 as stated, for the run context: no Heading element with a level
\* outside 1..6 is ever recorded in the delta log.
C24_HeadingLevelChecked ==
    \A i \in 1..Len(recorded) :
        recorded[i].element.type = "Heading" =>
            recorded[i].element.level \in 1..6

\* C25 as stated, for the run context: no Selectbox or Radio element
\* without options is ever recorded, and the value selectbox() or radio()
\* returns is one of the options it was declared with.
C25_EmptyOptionsRejected ==
    /\ \A i \in 1..Len(recorded) :
           recorded[i].element.type \in {"Selectbox", "Radio"} =>
               recorded[i].element.options # << >>
    /\ last_call.method \in {"selectbox", "radio"} =>
           \E j \in 1..Len(recorded[Len(recorded)].element.options) :
               recorded[Len(recorded)].element.options[j] = last_call.ret

----------------------------------------------------------------------------
\* Element objects: HeadingElement, SliderElement, SelectboxElement,
\* RadioElement and MultiselectElement, their constructors and the methods
\* that change them.  A method yields the object after the call and the
\* Result it returns; a constructor that fails yields no object.
\* serde_json values are [j |-> "Number", n], [j |-> "String", s] and
\* [j |-> "Array", a]; as_u64 is defined on the numbers that are not
\* negative.

OkUnit == [ok |-> TRUE]

HeadingElementNew(content, level) ==
    IF level < 1 \/ level > 6
    THEN [obj |-> None, result |-> Err("Heading level must be between 1 and 6")]
    ELSE [obj |-> Some([kind |-> "heading", content |-> content,
                        level |-> level]),
          result |-> OkUnit]

SliderElementNew(label, min, max) ==
    IF min >= max
    THEN [obj |-> None, result |-> Err("min must be less than max")]
    ELSE [obj |-> Some([kind |-> "slider", label |-> label, value |-> min,
                        min |-> min, max |-> max]),
          result |-> OkUnit]

\* Interactive::handle_event of SliderElement
SliderHandleEvent(e, event) ==
    IF /\ event.event_type = "change"
       /\ IsSome(event.data)
       /\ Unwrap(event.data).j = "Number"
       /\ Unwrap(event.data).n >= e.min
       /\ Unwrap(event.data).n <= e.max
    THEN [obj |-> Some([e EXCEPT !.value = Unwrap(event.data).n]),
          result |-> OkUnit]
    ELSE [obj |-> Some(e), result |-> OkUnit]

\* Interactive::set_value of SliderElement
SliderSetValue(e, value) ==
    IF value.j = "Number"
    THEN IF value.n < e.min \/ value.n > e.max
         THEN [obj |-> Some(e), result |-> Err("Value is outside range")]
         ELSE [obj |-> Some([e EXCEPT !.value = value.n]), result |-> OkUnit]
    ELSE [obj |-> Some(e), result |-> Err("Invalid slider value")]

\* options.iter().position(|opt| opt == s): the first index, if any
Position(options, s) ==
    IF \E i \in 1..Len(options) : options[i] = s
    THEN Some((CHOOSE i \in 1..Len(options) :
                   /\ options[i] = s
                   /\ \A j \in 1..(i - 1) : options[j] # s) - 1)
    ELSE None

SelectboxElementNew(label, options) ==
    IF options = << >>
    THEN [obj |-> None,
          result |-> Err("Selectbox must have at least one option")]
    ELSE [obj |-> Some([kind |-> "selectbox", label |-> label,
                        options |-> options, selected_index |-> 0]),
          result |-> OkUnit]

SelectboxSetSelectedIndex(e, index) ==
    IF index >= Len(e.options)
    THEN [obj |-> Some(e), result |-> Err("Index out of bounds")]
    ELSE [obj |-> Some([e EXCEPT !.selected_index = index]),
          result |-> OkUnit]

\* Interactive::handle_event of SelectboxElement
SelectboxHandleEvent(e, event) ==
    IF /\ event.event_type = "change"
       /\ IsSome(event.data)
       /\ Unwrap(event.data).j = "Number"
       /\ Unwrap(event.data).n >= 0
    THEN SelectboxSetSelectedIndex(e, Unwrap(event.data).n)
    ELSE [obj |-> Some(e), result |-> OkUnit]

\* Interactive::set_value of SelectboxElement
SelectboxSetValue(e, value) ==
    IF value.j = "String"
    THEN IF IsSome(Position(e.options, value.s))
         THEN [obj |-> Some([e EXCEPT !.selected_index =
                                          Unwrap(Position(e.options, value.s))]),
               result |-> OkUnit]
         ELSE [obj |-> Some(e), result |-> Err("Value not found in options")]
    ELSE [obj |-> Some(e), result |-> Err("Invalid selectbox value")]

RadioElementNew(label, options) ==
    IF options = << >>
    THEN [obj |-> None, result |-> Err("Radio must have at least one option")]
    ELSE [obj |-> Some([kind |-> "radio", label |-> label,
                        options |-> options, selected_index |-> 0]),
          result |-> OkUnit]

\* mutant of RadioElement::set_selected_index: the index is not checked
RadioSetSelectedIndexUnchecked(e, index) ==
    [obj |-> Some([e EXCEPT !.selected_index = index]), result |-> OkUnit]

RadioSetSelectedIndex(e, index) ==
    IF index >= Len(e.options)
    THEN [obj |-> Some(e), result |-> Err("Index out of bounds")]
    ELSE [obj |-> Some([e EXCEPT !.selected_index = index]),
          result |-> OkUnit]

\* Interactive::handle_event of RadioElement
RadioHandleEvent(e, event) ==
    IF /\ event.event_type = "change"
       /\ IsSome(event.data)
       /\ Unwrap(event.data).j = "Number"
       /\ Unwrap(event.data).n >= 0
    THEN RadioSetSelectedIndex(e, Unwrap(event.data).n)
    ELSE [obj |-> Some(e), result |-> OkUnit]

\* Interactive::set_value of RadioElement
RadioSetValue(e, value) ==
    IF value.j = "String"
    THEN IF IsSome(Position(e.options, value.s))
         THEN [obj |-> Some([e EXCEPT !.selected_index =
                                          Unwrap(Position(e.options, value.s))]),
               result |-> OkUnit]
         ELSE [obj |-> Some(e), result |-> Err("Value not found in options")]
    ELSE [obj |-> Some(e), result |-> Err("Invalid radio value")]

MultiselectElementNew(label, options) ==
    IF options = << >>
    THEN [obj |-> None,
          result |-> Err("Multiselect must have at least one option")]
    ELSE [obj |-> Some([kind |-> "multiselect", label |-> label,
                        options |-> options, selected_indices |-> << >>]),
          result |-> OkUnit]

AddSelection(e, index) ==
    IF index >= Len(e.options)
    THEN [obj |-> Some(e), result |-> Err("Index out of bounds")]
    ELSE IF \E i \in 1..Len(e.selected_indices) : e.selected_indices[i] = index
    THEN [obj |-> Some(e), result |-> OkUnit]
    ELSE [obj |-> Some([e EXCEPT !.selected_indices =
                                     Append(e.selected_indices, index)]),
          result |-> OkUnit]

\* selected_indices.retain(|&i| i != index)
RECURSIVE Retain(_, _)
Retain(indices, index) ==
    IF indices = << >> THEN << >>
    ELSE IF Head(indices) = index THEN Retain(Tail(indices), index)
    ELSE <<Head(indices)>> \o Retain(Tail(indices), index)

RemoveSelection(e, index) ==
    [obj |-> Some([e EXCEPT !.selected_indices =
                                Retain(e.selected_indices, index)]),
     result |-> OkUnit]

ClearSelections(e) ==
    [obj |-> Some([e EXCEPT !.selected_indices = << >>]), result |-> OkUnit]

\* the loop of MultiselectElement::handle_event: add_selection(n)? for
\* every entry that is a u64; the first error ends the call
RECURSIVE AddSelections(_, _)
AddSelections(e, values) ==
    IF values = << >> THEN [obj |-> Some(e), result |-> OkUnit]
    ELSE IF Head(values).j = "Number" /\ Head(values).n >= 0
    THEN LET r == AddSelection(e, Head(values).n)
         IN  IF r.result.ok THEN AddSelections(Unwrap(r.obj), Tail(values))
             ELSE r
    ELSE AddSelections(e, Tail(values))

\* Interactive::handle_event of MultiselectElement
MultiselectHandleEvent(e, event) ==
    IF /\ event.event_type = "change"
       /\ IsSome(event.data)
       /\ Unwrap(event.data).j = "Array"
    THEN AddSelections(Unwrap(ClearSelections(e).obj), Unwrap(event.data).a)
    ELSE [obj |-> Some(e), result |-> OkUnit]

\* the loop of MultiselectElement::set_value: push the position of every
\* entry that is one of the options
RECURSIVE PushPositions(_, _)
PushPositions(e, values) ==
    IF values = << >> THEN e
    ELSE IF Head(values).j = "String"
            /\ IsSome(Position(e.options, Head(values).s))
    THEN PushPositions(
             [e EXCEPT !.selected_indices =
                           Append(e.selected_indices,
                                  Unwrap(Position(e.options, Head(values).s)))],
             Tail(values))
    ELSE PushPositions(e, Tail(values))

\* Interactive::set_value of MultiselectElement
MultiselectSetValue(e, value) ==
    IF value.j = "Array"
    THEN [obj |-> Some(PushPositions(Unwrap(ClearSelections(e).obj), value.a)),
          result |-> OkUnit]
    ELSE [obj |-> Some(e), result |-> Err("Invalid multiselect value")]

\* inputs of the element operations
SliderRanges == {<<0, 2>>, <<2, 2>>}
Numbers == {[j |-> "Number", n |-> n] : n \in {0 - 1, 0, 1, 2, 3}}
Strings == {[j |-> "String", s |-> s] : s \in {<<"x">>, <<"z">>}}
Entries == {[j |-> "Number", n |-> n] : n \in {0 - 1, 1, 2}} \cup Strings
Arrays ==
    {[j |-> "Array", a |-> a] :
         a \in {<< >>} \cup {<<x>> : x \in Entries}
                 \cup {<<x, y>> : x \in {[j |-> "Number", n |-> 0],
                                         [j |-> "String", s |-> <<"x">>]},
                                  y \in Entries}}
Values == Numbers \cup Strings \cup Arrays
Events ==
    {[event_type |-> "click", data |-> None],
     [event_type |-> "change", data |-> None]}
        \cup {[event_type |-> "change", data |-> Some(v)] : v \in Values}
UsizeIndices == {0, 1, 2}

\* the host keeps what the call yields; the operation, its argument, its
\* Result and the object before it are observations
Applied(method, arg, r) ==
    /\ elem' = [obj |-> r.obj,
                op |-> Some([method |-> method, arg |-> arg,
                             result |-> r.result, before |-> elem.obj])]
    /\ UNCHANGED <<app, widget_state, pc, last, prev, written, thread, wire,
                   libVars>>
    /\ UNCHANGED sessVars
    /\ UNCHANGED ctxVars

Holds(kind) == IsSome(elem.obj) /\ Unwrap(elem.obj).kind = kind

NewHeading ==
    /\ \E level \in Levels :
           Applied("HeadingElement::new", level,
                HeadingElementNew(<<"a">>, level))

NewSlider ==
    /\ \E range \in SliderRanges :
           Applied("SliderElement::new", range,
                SliderElementNew("L", range[1], range[2]))

NewSelectbox ==
    /\ \E options \in OptionLists :
           Applied("SelectboxElement::new", options,
                SelectboxElementNew("L", options))

NewRadio ==
    /\ \E options \in OptionLists :
           Applied("RadioElement::new", options, RadioElementNew("L", options))

NewMultiselect ==
    /\ \E options \in OptionLists :
           Applied("MultiselectElement::new", options,
                MultiselectElementNew("L", options))

SliderEvent ==
    /\ Holds("slider")
    /\ \E event \in Events :
           Applied("handle_event", event,
                   SliderHandleEvent(Unwrap(elem.obj), event))

SliderSet ==
    /\ Holds("slider")
    /\ \E value \in Values :
           Applied("set_value", value,
                   SliderSetValue(Unwrap(elem.obj), value))

SelectboxIndex ==
    /\ Holds("selectbox")
    /\ \E index \in UsizeIndices :
           Applied("set_selected_index", index,
                   SelectboxSetSelectedIndex(Unwrap(elem.obj), index))

SelectboxEvent ==
    /\ Holds("selectbox")
    /\ \E event \in Events :
           Applied("handle_event", event,
                   SelectboxHandleEvent(Unwrap(elem.obj), event))

SelectboxSet ==
    /\ Holds("selectbox")
    /\ \E value \in Values :
           Applied("set_value", value,
                   SelectboxSetValue(Unwrap(elem.obj), value))

RadioIndex ==
    /\ Holds("radio")
    /\ \E index \in UsizeIndices :
           Applied("set_selected_index", index,
                   RadioSetSelectedIndex(Unwrap(elem.obj), index))

RadioEvent ==
    /\ Holds("radio")
    /\ \E event \in Events :
           Applied("handle_event", event,
                   RadioHandleEvent(Unwrap(elem.obj), event))

RadioSet ==
    /\ Holds("radio")
    /\ \E value \in Values :
           Applied("set_value", value, RadioSetValue(Unwrap(elem.obj), value))

MultiselectAdd ==
    /\ Holds("multiselect")
    /\ \E index \in UsizeIndices :
           Applied("add_selection", index,
                   AddSelection(Unwrap(elem.obj), index))

MultiselectRemove ==
    /\ Holds("multiselect")
    /\ \E index \in UsizeIndices :
           Applied("remove_selection", index,
                   RemoveSelection(Unwrap(elem.obj), index))

MultiselectClear ==
    /\ Holds("multiselect")
    /\ Applied("clear_selections", None, ClearSelections(Unwrap(elem.obj)))

MultiselectEvent ==
    /\ Holds("multiselect")
    /\ \E event \in Events :
           Applied("handle_event", event,
                   MultiselectHandleEvent(Unwrap(elem.obj), event))

MultiselectSet ==
    /\ Holds("multiselect")
    /\ \E value \in Values :
           Applied("set_value", value,
                   MultiselectSetValue(Unwrap(elem.obj), value))

\* TextInputElement::new, set_max_length (elements/input.rs)
TextInputElementNew(label) ==
    [obj |-> Some([kind |-> "text_input", label |-> label, value |-> << >>,
                   max_length |-> None]),
     result |-> OkUnit]

TextInputSetMaxLength(e, max_length) ==
    [obj |-> Some([e EXCEPT !.max_length = Some(max_length)]),
     result |-> OkUnit]

\* Interactive::handle_event of TextInputElement
TextInputHandleEvent(e, event) ==
    IF /\ event.event_type = "change"
       /\ IsSome(event.data)
       /\ Unwrap(event.data).j = "String"
    THEN IF IsSome(e.max_length)
            /\ Len(Unwrap(event.data).s) > Unwrap(e.max_length)
         THEN [obj |-> Some(e), result |-> Err("Value exceeds maximum length")]
         ELSE [obj |-> Some([e EXCEPT !.value = Unwrap(event.data).s]),
               result |-> OkUnit]
    ELSE [obj |-> Some(e), result |-> OkUnit]

\* Interactive::set_value of TextInputElement
TextInputSetValue(e, value) ==
    IF value.j = "String"
    THEN IF IsSome(e.max_length) /\ Len(value.s) > Unwrap(e.max_length)
         THEN [obj |-> Some(e), result |-> Err("Value exceeds maximum length")]
         ELSE [obj |-> Some([e EXCEPT !.value = value.s]), result |-> OkUnit]
    ELSE [obj |-> Some(e), result |-> Err("Invalid value for text input")]

NewTextInput ==
    /\ Applied("TextInputElement::new", 0, TextInputElementNew(<<"a">>))

TextInputMaxLength ==
    /\ Holds("text_input")
    /\ \E max_length \in UsizeIndices :
           Applied("set_max_length", max_length,
                   TextInputSetMaxLength(Unwrap(elem.obj), max_length))

TextInputEvent ==
    /\ Holds("text_input")
    /\ \E event \in Events :
           Applied("handle_event", event,
                   TextInputHandleEvent(Unwrap(elem.obj), event))

TextInputSet ==
    /\ Holds("text_input")
    /\ \E value \in Values :
           Applied("set_value", value,
                   TextInputSetValue(Unwrap(elem.obj), value))

InitElem ==
    /\ InitCtx
    /\ InitExecIdle

NextElem ==
    \/ NewHeading
    \/ NewSlider
    \/ NewSelectbox
    \/ NewRadio
    \/ NewMultiselect
    \/ SliderEvent
    \/ SliderSet
    \/ SelectboxIndex
    \/ SelectboxEvent
    \/ SelectboxSet
    \/ RadioIndex
    \/ RadioEvent
    \/ RadioSet
    \/ MultiselectAdd
    \/ MultiselectRemove
    \/ MultiselectClear
    \/ MultiselectEvent
    \/ MultiselectSet
    \/ NewTextInput
    \/ TextInputMaxLength
    \/ TextInputEvent
    \/ TextInputSet

SpecElem == InitElem /\ [][NextElem]_vars

\* Properties of the element objects (SpecElem).

\* the operation just made on a held element of this kind
Did(kind, method) ==
    /\ IsSome(elem.op)
    /\ Unwrap(elem.op).method = method
    /\ IsSome(Unwrap(elem.op).before)
    /\ Unwrap(Unwrap(elem.op).before).kind = kind

\* the indices (u64) a change event carries for an element of this kind:
\* the numbers of its array for a multiselect, its number for the others
Carried(kind, event) ==
    IF event.event_type # "change" \/ event.data = None THEN {}
    ELSE IF kind # "multiselect" /\ Unwrap(event.data).j = "Number"
    THEN {Unwrap(event.data).n} \cap Nat
    ELSE IF kind = "multiselect" /\ Unwrap(event.data).j = "Array"
    THEN {Unwrap(event.data).a[i].n :
              i \in {k \in 1..Len(Unwrap(event.data).a) :
                         Unwrap(event.data).a[k].j = "Number"}} \cap Nat
    ELSE {}

\* C26: a radio's selected index and every selected index of a multiselect
\* is an index of its options, so selected_value() and selected_values()
\* stay in bounds; and set_selected_index(i), add_selection(i) and a change
\* event that carries i return an error when i >= options.len().
C26_SelectedIndicesInBounds ==
    /\ Holds("radio") =>
           Unwrap(elem.obj).selected_index < Len(Unwrap(elem.obj).options)
    /\ Holds("multiselect") =>
           \A i \in 1..Len(Unwrap(elem.obj).selected_indices) :
               Unwrap(elem.obj).selected_indices[i] <
                   Len(Unwrap(elem.obj).options)
    /\ \A kind \in {"radio", "multiselect"} :
           LET op == Unwrap(elem.op)
               n == Len(Unwrap(op.before).options)
           IN  /\ (Did(kind, "set_selected_index") /\ op.arg >= n) =>
                      ~op.result.ok
               /\ (Did(kind, "add_selection") /\ op.arg >= n) =>
                      ~op.result.ok
               /\ (Did(kind, "handle_event")
                       /\ \E i \in Carried(kind, op.arg) : i >= n) =>
                      ~op.result.ok

\* a change event that carries a valid index and then one past the end was
\* refused, and the multiselect holds the valid one only
C26_Witness ==
    /\ Did("multiselect", "handle_event")
    /\ Carried("multiselect", Unwrap(elem.op).arg) = {0, 2}
    /\ ~Unwrap(elem.op).result.ok
    /\ Unwrap(elem.obj).selected_indices = <<0>>

\* C27 as stated: a slider value outside [min, max] or a selectbox index
\* outside the options, given to set_value, set_selected_index or a change
\* event, is answered with an error; and the slider value stays within
\* [min, max].
C27_OutOfRangeRejected ==
    /\ Holds("slider") =>
           /\ Unwrap(elem.obj).value >= Unwrap(elem.obj).min
           /\ Unwrap(elem.obj).value <= Unwrap(elem.obj).max
    /\ LET op == Unwrap(elem.op)
           e == Unwrap(op.before)
       IN  /\ (/\ Did("slider", "set_value")
               /\ op.arg.j = "Number"
               /\ (op.arg.n < e.min \/ op.arg.n > e.max)) => ~op.result.ok
           /\ (/\ Did("slider", "handle_event")
               /\ op.arg.event_type = "change"
               /\ IsSome(op.arg.data)
               /\ Unwrap(op.arg.data).j = "Number"
               /\ (\/ Unwrap(op.arg.data).n < e.min
                   \/ Unwrap(op.arg.data).n > e.max)) => ~op.result.ok
           /\ (/\ Did("selectbox", "set_selected_index")
               /\ op.arg >= Len(e.options)) => ~op.result.ok
           /\ (/\ Did("selectbox", "handle_event")
               /\ \E i \in Carried("selectbox", op.arg) : i >= Len(e.options)) =>
                  ~op.result.ok

----------------------------------------------------------------------------
\* DeltaGenerator: the deltas that change what was declared.  No builder
\* method of St calls update_element, remove_element or clear_container;
\* a script reaches them through st.delta_gen().

UpdateElementDelta(id, et) ==
    [op |-> "UpdateElement", id |-> id, element |-> et]
RemoveElementDelta(id) == [op |-> "RemoveElement", id |-> id]
ClearContainerDelta(id) == [op |-> "ClearContainer", id |-> id]

\* update_element(id, element_type): the delta is pushed, nothing is read
UpdateElement(g, id, et) ==
    [g EXCEPT !.deltas = Append(g.deltas, UpdateElementDelta(id, et))]

\* remove_element(id)
RemoveElement(g, id) ==
    [g EXCEPT !.elements = [x \in DOMAIN g.elements \ {id} |-> g.elements[x]],
              !.deltas = Append(g.deltas, RemoveElementDelta(id))]

\* clear_container(id)
ClearContainer(g, id) ==
    [g EXCEPT !.deltas = Append(g.deltas, ClearContainerDelta(id))]

\* element ids and kinds a script passes
ElementIds == 1..MaxId
Kinds == {Text(<<"a">>), Text(<<"b">>), Markdown(<<"a">>)}

\* a call on st.delta_gen() that records one delta and returns nothing
Pushed(method, id, g) ==
    /\ SetGen(g)
    /\ recorded' = Append(recorded, g.deltas[Len(g.deltas)])
    /\ last_call' = [method |-> method, via |-> None,
                     args |-> [key |-> None, id |-> id], ret |-> 0]
    /\ ncalls' = ncalls + 1
    /\ last_take' = None
    /\ call_log' = Append(call_log, last_call')
    /\ UNCHANGED <<containers, issued, declared, takes, cleared>>
    /\ UNCHANGED execVars

UpdateElementCall ==
    \E id \in ElementIds, et \in Kinds :
        Pushed("update_element", id, UpdateElement(Gen, id, et))

RemoveElementCall ==
    \E id \in ElementIds :
        Pushed("remove_element", id, RemoveElement(Gen, id))

ClearContainerCall ==
    \E id \in ElementIds :
        Pushed("clear_container", id, ClearContainer(Gen, id))

InitDelta == InitCtx /\ InitExecIdle

NextDelta ==
    \/ \E cc \in Views : ncalls < MaxCalls /\ Write(cc)
    \/ \E cc \in Views : ncalls < MaxCalls /\ MarkdownCall(cc)
    \/ \E cc \in Views : ncalls < MaxCalls /\ ContainerCall(cc)
    \/ ncalls < MaxCalls /\ UpdateElementCall
    \/ ncalls < MaxCalls /\ RemoveElementCall
    \/ ncalls < MaxCalls /\ ClearContainerCall

SpecDelta == InitDelta /\ [][NextDelta]_vars

\* C28 as stated: every UpdateElement delta of the log refers to an id
\* that an earlier AddElement of the log introduced and no RemoveElement
\* in between removed, and carries the variant that AddElement declared.
C28_UpdateKeepsVariant ==
    \A i \in 1..Len(deltas) :
        deltas[i].op = "UpdateElement" =>
            \E j \in 1..(i - 1) :
                /\ deltas[j].op = "AddElement"
                /\ deltas[j].id = deltas[i].id
                /\ deltas[j].element.type = deltas[i].element.type
                /\ \A k \in (j + 1)..(i - 1) :
                       ~(/\ deltas[k].op = "RemoveElement"
                         /\ deltas[k].id = deltas[i].id)

----------------------------------------------------------------------------
\* Frame of execute_script (SpecExec).

\* the handlers that call execute_script without a change to store
PlainRuns == {"initial", "rerun", "button_click"}

\* C29: a step that runs execute_script for the bootstrap or for a rerun
\* request leaves the carried-forward widget state as it was, and the run
\* reads the widget values the run before it read.
C29_ExecuteKeepsSnapshot ==
    [][(IsSome(last') /\ Unwrap(last').trigger \in PlainRuns) =>
           /\ widget_state' = widget_state
           /\ IsSome(last) =>
                  /\ Unwrap(last').seeded = Unwrap(last).seeded
                  /\ Unwrap(last').name = Unwrap(last).name
                  /\ Unwrap(last').checked = Unwrap(last).checked
                  /\ Unwrap(last').number = Unwrap(last).number]_vars

\* two rerun requests in a row after a change was stored
C29_Witness ==
    /\ IsSome(last)
    /\ IsSome(prev)
    /\ Unwrap(last).trigger = "rerun"
    /\ Unwrap(prev).trigger = "rerun"
    /\ widget_state # EmptyMap
    /\ Unwrap(last).name = Some(<<"A">>)

----------------------------------------------------------------------------
\* The wire adapter on the logs a run context records (SpecSt).

\* the tag deltas_to_json gives each discriminant
Discriminant(op) ==
    CASE op = "AddElement" -> "add_element"
      [] op = "UpdateElement" -> "update_element"
      [] op = "RemoveElement" -> "remove_element"
      [] op = "ClearContainer" -> "clear_container"

\* C30 as stated, for deltas_to_json: the encoded sequence has the length
\* and order of the log, each entry carries the discriminant, the id and
\* the parent of its delta, and the element can be recovered from its
\* entry: two entries that encode elements of one variant alike come from
\* equal elements.
C30_WireLossless ==
    LET body == DeltasToJson(recorded).elements
    IN  /\ Len(body) = Len(recorded)
        /\ \A i \in 1..Len(recorded) :
               /\ body[i].type = Discriminant(recorded[i].op)
               /\ body[i].id = DecimalString(recorded[i].id)
               /\ body[i].parent_id =
                      IF recorded[i].parent_id = None THEN None
                      ELSE Some(DecimalString(Unwrap(recorded[i].parent_id)))
        /\ \A i, j \in 1..Len(recorded) :
               (/\ recorded[i].element.type = recorded[j].element.type
                /\ body[i].element = body[j].element) =>
                   recorded[i].element = recorded[j].element

----------------------------------------------------------------------------
\* DataCache (platypus-runtime/src/cache.rs).  Instants and Durations are
\* whole ticks of the clock.

\* CacheEntry::is_valid at clock reading t
IsValid(entry, t) ==
    IF IsSome(entry.ttl) THEN t - entry.created_at < Unwrap(entry.ttl) ELSE TRUE

\* mutant: an entry is valid up to and including the tick its TTL ends
DataCacheGetLate(c, key, t) ==
    IF key \in DOMAIN c
    THEN IF (IsSome(c[key].ttl) => t - c[key].created_at <= Unwrap(c[key].ttl))
         THEN [ret |-> Some(c[key].data), cache |-> c]
         ELSE [ret |-> None, cache |-> [k \in DOMAIN c \ {key} |-> c[k]]]
    ELSE [ret |-> None, cache |-> c]

\* DataCache::get at clock reading t: the returned value and the map it leaves
DataCacheGet(c, key, t) ==
    IF key \in DOMAIN c
    THEN IF IsValid(c[key], t)
         THEN [ret |-> Some(c[key].data), cache |-> c]
         ELSE [ret |-> None, cache |-> [k \in DOMAIN c \ {key} |-> c[k]]]
    ELSE [ret |-> None, cache |-> c]

\* DataCache::set at clock reading t
DataCacheSet(c, key, value, ttl, t) ==
    MapInsert(c, key, [data |-> value, created_at |-> t, ttl |-> ttl])

\* DataCache::clear, DataCache::size, DataCache::cleanup
DataCacheClear(c) == EmptyMap
DataCacheSize(c) == Cardinality(DOMAIN c)
DataCacheCleanup(c, t) == [k \in {x \in DOMAIN c : IsValid(c[x], t)} |-> c[k]]

CacheKeys == {"key1", "key2"}
CacheValues == {"value1", "value2"}
Ttls == {None} \cup {Some(d) : d \in 0..MaxTime}

\* what a call on the cache leaves behind
Cached(method, key, ret, c, sets) ==
    /\ cache' = c
    /\ cache_log' = [sets |-> sets,
                     last |-> Some([method |-> method, key |-> key,
                                    ret |-> ret, at |-> now])]
    /\ UNCHANGED <<app, widget_state, pc, last, prev, written, thread, wire,
                   elem, nav, nav_log, adder, held, store_log>>
    /\ UNCHANGED sessVars
    /\ UNCHANGED ctxVars

CacheGet ==
    /\ \E key \in CacheKeys :
           Cached("get", key, DataCacheGet(cache, key, now).ret,
                  DataCacheGet(cache, key, now).cache, cache_log.sets)

CacheSet ==
    /\ \E key \in CacheKeys, value \in CacheValues, ttl \in Ttls :
           Cached("set", key, None,
                  DataCacheSet(cache, key, value, ttl, now),
                  MapInsert(cache_log.sets, key,
                            [value |-> value, ttl |-> ttl, at |-> now]))

\* clear() ends every entry: no set made before it counts afterwards
CacheClear ==
    /\ Cached("clear", "", None, DataCacheClear(cache), EmptyMap)

CacheCleanup ==
    /\ Cached("cleanup", "", None, DataCacheCleanup(cache, now),
              cache_log.sets)

\* the clock advances while the cache is in use
CacheTick ==
    /\ now < MaxTime
    /\ now' = now + 1
    /\ UNCHANGED <<app, widget_state, pc, last, prev, written, thread, wire,
                   elem, libVars, sessions, conn>>
    /\ UNCHANGED ctxVars

InitCache == InitCtx /\ InitExecIdle

NextCache ==
    \/ CacheGet
    \/ CacheSet
    \/ CacheClear
    \/ CacheCleanup
    \/ CacheTick

SpecCache == InitCache /\ [][NextCache]_vars

\* the most recent set on the key has not run out of time at clock reading t
Fresh(set, t) == IsSome(set.ttl) => t - set.at < Unwrap(set.ttl)

----------------------------------------------------------------------------
\* Navigation (platypus-runtime/src/navigation.rs).

\* Page::new
PageNew(name, title) ==
    [name |-> name, title |-> title, icon |-> None, description |-> None]

\* Navigation::add_page
NavigationAddPage(n, page) ==
    [pages |-> MapInsert(n.pages, page.name, page),
     current_page |-> IF n.current_page = "" THEN page.name
                      ELSE n.current_page]

\* Navigation::current_page
NavigationCurrentPage(n) == MapGet(n.pages, n.current_page)

\* Navigation::navigate_to: the returned flag and the navigation it leaves
NavigateTo(n, page_name) ==
    IF page_name \in DOMAIN n.pages
    THEN [ret |-> TRUE, nav |-> [n EXCEPT !.current_page = page_name]]
    ELSE [ret |-> FALSE, nav |-> n]

PageNames == {"", "home", "about"}
PageTitles == {"Home", "About"}

\* what a call on the navigation leaves behind
Navigated(method, name, ret, n) ==
    /\ nav' = n
    /\ nav_log' = [added |-> IF method = "add_page"
                             THEN Append(nav_log.added, name)
                             ELSE nav_log.added,
                   navigated |-> nav_log.navigated
                                 \/ (method = "navigate_to" /\ ret),
                   last |-> Some([method |-> method, name |-> name,
                                  ret |-> ret, before |-> nav])]
    /\ UNCHANGED <<app, widget_state, pc, last, prev, written, thread, wire,
                   elem, cache, cache_log, adder, held, store_log>>
    /\ UNCHANGED sessVars
    /\ UNCHANGED ctxVars

AddPageCall ==
    /\ Len(nav_log.added) < MaxCalls
    /\ \E name \in PageNames, title \in PageTitles :
           Navigated("add_page", name, FALSE,
                     NavigationAddPage(nav, PageNew(name, title)))

NavigateToCall ==
    /\ \E page_name \in PageNames :
           Navigated("navigate_to", page_name, NavigateTo(nav, page_name).ret,
                     NavigateTo(nav, page_name).nav)

InitNav == InitCtx /\ InitExecIdle

NextNav ==
    \/ AddPageCall
    \/ NavigateToCall

SpecNav == InitNav /\ [][NextNav]_vars

\* C32: navigate_to(name) returns true and makes name the current page
\* exactly when name is a registered page, and otherwise returns false and
\* leaves the navigation as it was; until a navigate_to succeeds, the
\* current page is the first page that was added.
C32_NavigateToRegistered ==
    /\ (IsSome(nav_log.last) /\ Unwrap(nav_log.last).method = "navigate_to") =>
           LET l == Unwrap(nav_log.last)
           IN  /\ l.ret <=> l.name \in DOMAIN l.before.pages
               /\ l.ret => nav.current_page = l.name
               /\ ~l.ret => nav = l.before
    /\ (Len(nav_log.added) >= 1 /\ ~nav_log.navigated) =>
           /\ IsSome(NavigationCurrentPage(nav))
           /\ Unwrap(NavigationCurrentPage(nav)).name = nav_log.added[1]

----------------------------------------------------------------------------
\* C33: a rerun is seeded from the snapshot numeric-first: before the
\* script's first call the run's value store holds every key of the
\* snapshot and no other, as a Number when the raw text parses as a number
\* and otherwise as a String holding the raw text unchanged.
C33_NumericFirstSeeding ==
    IsSome(last) =>
        LET store == Unwrap(last).seeded
        IN  /\ DOMAIN store = DOMAIN widget_state
            /\ \A k \in DOMAIN widget_state :
                   LET raw == widget_state[k]
                   IN  IF IsSome(ParseF64(raw))
                       THEN /\ store[k].t = "Number"
                            /\ as_number(store[k]) = ParseF64(raw)
                       ELSE /\ store[k].t = "String"
                            /\ as_string(store[k]) = Some(raw)

\* a rerun seeded from a snapshot with a numeric and a non-numeric entry
C33_Witness ==
    /\ IsSome(last)
    /\ \E k1, k2 \in DOMAIN widget_state :
           /\ widget_state[k1] = <<"7">>
           /\ widget_state[k2] = <<"A">>
           /\ Unwrap(last).seeded[k1] = WNumber(7)
           /\ Unwrap(last).seeded[k2] = WString(<<"A">>)

----------------------------------------------------------------------------
\* The SessionStore driven through its own methods by a caller that holds
\* a copy of a session (platypus-runtime/src/session_store.rs).

\* SessionStore::get_session: a copy of the stored session, or not found
GetSession(store, session_id) == MapGet(store, session_id)

\* SessionStore::update_session
UpdateSession(store, session) == MapInsert(store, session.id, session)

\* Session::increment_reruns at clock reading t
IncrementReruns(session, t) ==
    [session EXCEPT !.reruns = @ + 1, !.last_activity = t]

\* the ids Session::new draws; a drawn id is never drawn again
SessionIds == {1, 2}

\* what a call on the store leaves behind
Stored(method, arg, store, copies) ==
    /\ sessions' = store
    /\ held' = copies
    /\ store_log' =
           [created |-> IF method = "create_session"
                        THEN store_log.created \cup {arg}
                        ELSE store_log.created,
            removed |-> IF method \in {"remove_session",
                                       "cleanup_stale_sessions"}
                        THEN store_log.removed
                                 \cup (DOMAIN sessions \ DOMAIN store)
                        ELSE store_log.removed,
            last |-> Some([method |-> method, arg |-> arg, at |-> now,
                           before |-> IF method = "cleanup_stale_sessions"
                                      THEN sessions ELSE EmptyMap])]
    /\ UNCHANGED <<app, widget_state, pc, last, prev, written, thread, wire,
                   elem, cache, cache_log, nav, nav_log, adder, conn, now>>
    /\ UNCHANGED ctxVars

StoreCreate ==
    /\ \E id \in SessionIds \ store_log.created :
           Stored("create_session", id, CreateSession(sessions, id, now), held)

\* the caller keeps the copy of a successful get_session
StoreGet ==
    /\ \E id \in SessionIds :
           Stored("get_session", id, sessions,
                  IF IsSome(GetSession(sessions, id))
                  THEN GetSession(sessions, id)
                  ELSE held)

\* the caller counts a rerun on the copy it holds
HolderIncrement ==
    /\ IsSome(held)
    /\ Unwrap(held).reruns < MaxCalls
    /\ Stored("increment_reruns", Unwrap(held).id, sessions,
              Some(IncrementReruns(Unwrap(held), now)))

StoreUpdate ==
    /\ IsSome(held)
    /\ Stored("update_session", Unwrap(held).id,
              UpdateSession(sessions, Unwrap(held)), held)

StoreRemove ==
    /\ \E id \in SessionIds :
           Stored("remove_session", id, RemoveSession(sessions, id), held)

StoreCleanup ==
    /\ \E timeout_secs \in Timeouts :
           Stored("cleanup_stale_sessions", timeout_secs,
                  CleanupStaleSessions(sessions, now, timeout_secs), held)

StoreTick ==
    /\ now < MaxTime
    /\ now' = now + 1
    /\ UNCHANGED <<app, widget_state, pc, last, prev, written, thread, wire,
                   elem, libVars, sessions, conn>>
    /\ UNCHANGED ctxVars

InitStore == InitCtx /\ InitExecIdle

NextStore ==
    \/ StoreCreate
    \/ StoreGet
    \/ HolderIncrement
    \/ StoreUpdate
    \/ StoreRemove
    \/ StoreCleanup
    \/ StoreTick

SpecStore == InitStore /\ [][NextStore]_vars

\* C34: cleanup_stale_sessions(t) removes exactly the sessions whose last
\* activity lies more than t seconds before the sweep; every session whose
\* last activity is at most t seconds old stays, with all its fields as
\* they were.
C34_SweepRemovesExactlyStale ==
    (IsSome(store_log.last)
        /\ Unwrap(store_log.last).method = "cleanup_stale_sessions") =>
        LET l == Unwrap(store_log.last)
        IN  \A id \in DOMAIN l.before :
                IF l.at - l.before[id].last_activity <= l.arg
                THEN id \in DOMAIN sessions /\ sessions[id] = l.before[id]
                ELSE id \notin DOMAIN sessions

\* a sweep that removed one session and kept another that has counted a
\* rerun and is exactly as old as the timeout
C34_Witness ==
    /\ IsSome(store_log.last)
    /\ LET l == Unwrap(store_log.last)
       IN  /\ l.method = "cleanup_stale_sessions"
           /\ l.arg = 1
           /\ \E gone \in DOMAIN l.before : gone \notin DOMAIN sessions
           /\ \E kept \in DOMAIN sessions :
                  /\ sessions[kept].reruns = 1
                  /\ l.at - sessions[kept].last_activity = 1

\* C37: once a session has been removed from the store, get_session for
\* its id fails from then on, whatever is called on the store afterwards.
C37_RemovedStaysRemoved ==
    \A id \in store_log.removed : ~IsSome(GetSession(sessions, id))

----------------------------------------------------------------------------
\* the calls of an element that can refuse a change
Mutators == {"set_value", "set_selected_index", "add_selection", "handle_event"}

\* C38: a rejected mutation changes nothing: when set_value,
\* set_selected_index, add_selection or handle_event of a slider, selectbox,
\* radio, multiselect or text-input element returns an error, the element
\* is exactly what it was before the call.
C38_RejectedChangesNothing ==
    (/\ IsSome(elem.op)
     /\ Unwrap(elem.op).method \in Mutators
     /\ ~Unwrap(elem.op).result.ok) =>
        elem.obj = Unwrap(elem.op).before

----------------------------------------------------------------------------
\* The tree a receiver builds from the deltas (the reference of C36).

\* x lies under container id in the tree (child, grandchild, ...)
RECURSIVE IsUnder(_, _, _, _)
IsUnder(tree, x, id, fuel) ==
    /\ fuel > 0
    /\ x \in DOMAIN tree
    /\ IsSome(tree[x].parent_id)
    /\ \/ Unwrap(tree[x].parent_id) = id
       \/ IsUnder(tree, Unwrap(tree[x].parent_id), id, fuel - 1)

\* one delta applied to a tree
ApplyDelta(tree, d) ==
    CASE d.op = "AddElement" ->
             MapInsert(tree, d.id,
                       [element |-> d.element, parent_id |-> d.parent_id])
      [] d.op = "UpdateElement" ->
             IF d.id \in DOMAIN tree
             THEN [tree EXCEPT ![d.id].element = d.element]
             ELSE tree
      [] d.op = "RemoveElement" ->
             [x \in DOMAIN tree \ {d.id} |-> tree[x]]
      [] d.op = "ClearContainer" ->
             [x \in {y \in DOMAIN tree :
                         ~IsUnder(tree, y, d.id, Cardinality(DOMAIN tree))} |->
                  tree[x]]

\* every delta of the list applied in order to the empty tree
RECURSIVE ApplyDeltas(_)
ApplyDeltas(ds) ==
    IF ds = << >> THEN EmptyMap
    ELSE ApplyDelta(ApplyDeltas(SubSeq(ds, 1, Len(ds) - 1)), ds[Len(ds)])

\* C36: after any sequence of add_element, update_element, remove_element
\* and clear_container the element map of the generator equals the tree
\* the emitted deltas build from an empty tree: the same ids, each with the
\* kind the tree shows for it.
C36_ElementsMatchDeltas ==
    LET tree == ApplyDeltas(recorded)
    IN  /\ DOMAIN elements = DOMAIN tree
        /\ \A id \in DOMAIN elements : elements[id] = tree[id].element

----------------------------------------------------------------------------
\* Two threads inside add_element on handles that share one DeltaGenerator
\* (state.rs:55-71, Clone at 152-161).  The call takes three locks in turn:
\* the write lock of next_element_id inside next_element_id(), the shard
\* lock of elements.insert, and the write lock of deltas for the push; none
\* is held across two of the steps.

\* let id = self.next_element_id();
AddAllocate(t) ==
    /\ adder[t].pc = "idle"
    /\ next_element_id <= MaxId
    /\ \E et \in Kinds :
           adder' = [adder EXCEPT ![t] =
                         [pc |-> "allocated", id |-> NextElementId(Gen).id,
                          element_type |-> Some(et), parent_id |-> None]]
    /\ next_element_id' = NextElementId(Gen).gen.next_element_id
    /\ UNCHANGED <<elements, widgets, deltas>>
    /\ UNCHANGED <<containers, issued, declared, recorded, takes, cleared,
                   last_take, last_call, ncalls, call_log>>
    /\ UNCHANGED <<app, widget_state, pc, last, prev, written, thread, wire,
                   elem, cache, cache_log, nav, nav_log, held, store_log>>
    /\ UNCHANGED sessVars

\* self.elements.insert(id, element);
AddInsert(t) ==
    /\ adder[t].pc = "allocated"
    /\ elements' = MapInsert(elements, adder[t].id,
                             Unwrap(adder[t].element_type))
    /\ adder' = [adder EXCEPT ![t].pc = "inserted"]
    /\ UNCHANGED <<widgets, deltas, next_element_id>>
    /\ UNCHANGED <<containers, issued, declared, recorded, takes, cleared,
                   last_take, last_call, ncalls, call_log>>
    /\ UNCHANGED <<app, widget_state, pc, last, prev, written, thread, wire,
                   elem, cache, cache_log, nav, nav_log, held, store_log>>
    /\ UNCHANGED sessVars

\* self.deltas.write().push(Delta::AddElement { .. }); id
AddPush(t) ==
    /\ adder[t].pc = "inserted"
    /\ deltas' = Append(deltas,
                        AddElementDelta(adder[t].id,
                                        Unwrap(adder[t].element_type),
                                        adder[t].parent_id))
    /\ adder' = [adder EXCEPT ![t] = AdderIdle]
    /\ UNCHANGED <<elements, widgets, next_element_id>>
    /\ UNCHANGED <<containers, issued, declared, recorded, takes, cleared,
                   last_take, last_call, ncalls, call_log>>
    /\ UNCHANGED <<app, widget_state, pc, last, prev, written, thread, wire,
                   elem, cache, cache_log, nav, nav_log, held, store_log>>
    /\ UNCHANGED sessVars

InitAdd == InitCtx /\ InitExecIdle

NextAdd ==
    \/ \E t \in Threads : AddAllocate(t)
    \/ \E t \in Threads : AddInsert(t)
    \/ \E t \in Threads : AddPush(t)

SpecAdd == InitAdd /\ [][NextAdd]_vars

\* C35: when two threads call add_element at the same time on handles that
\* share one DeltaGenerator, the AddElement deltas are in the log in
\* increasing id order.
C35_ConcurrentAddsInIdOrder ==
    \A i, j \in 1..Len(deltas) : i < j => deltas[i].id < deltas[j].id

====
